---- MODULE Spec2Model ----
(***************************************************************************)
(* Image annotation editor (AnnotationModel + AnnotationViewModel +        *)
(* CanvasRenderer geometry).  The state is the model object, the viewmodel *)
(* object and the text-input part of the view; each event handler is one   *)
(* action.  Numbers are exact rationals <<n, d>> (the code's doubles,      *)
(* idealised); rotation angles are whole quarter turns, so that cos and    *)
(* sin are exact.                                                          *)
(***************************************************************************)
EXTENDS Integers, Sequences, FiniteSets, TLC

\* ------------------------------------------------------------------ bounds
MaxBoxes  == 2   \* shapes in the live list
MaxHist   == 3   \* snapshots in history
MaxIssued == 2   \* ids handed out in one session
MaxNudges == 1   \* arrow keys pressed in one run
MaxPath   == 3   \* points of an in-progress pen path
WorldMax  == 60  \* shapes stay inside [0, WorldMax] on both axes
MaxDen    == 10  \* denominators of the scale and of the pan

\* --------------------------------------------------------------- rationals
Abs(n) == IF n < 0 THEN -n ELSE n

RECURSIVE GCD(_, _)
GCD(a, b) == IF b = 0 THEN a ELSE GCD(b, a % b)

\* The rational n/d in lowest terms with a positive denominator.
Q(n, d) ==
    LET s == IF d < 0 THEN -1 ELSE 1
        g == GCD(Abs(n), Abs(d))
    IN  <<(s * n) \div g, (s * d) \div g>>

I(n) == <<n, 1>>
QAdd(a, b) == IF a[2] = 1 /\ b[2] = 1 THEN <<a[1] + b[1], 1>>
              ELSE Q(a[1] * b[2] + b[1] * a[2], a[2] * b[2])
QNeg(a) == <<-a[1], a[2]>>
QSub(a, b) == QAdd(a, QNeg(b))
QMul(a, b) == IF a[2] = 1 /\ b[2] = 1 THEN <<a[1] * b[1], 1>>
              ELSE Q(a[1] * b[1], a[2] * b[2])
QDiv(a, b) == Q(a[1] * b[2], a[2] * b[1])
QHalf(a) == Q(a[1], 2 * a[2])
QLt(a, b) == a[1] * b[2] < b[1] * a[2]
QLe(a, b) == a[1] * b[2] <= b[1] * a[2]
QAbs(a) == <<Abs(a[1]), a[2]>>
QMax(a, b) == IF QLt(a, b) THEN b ELSE a
QMin(a, b) == IF QLt(b, a) THEN b ELSE a

RECURSIVE QMaxSeq(_)
QMaxSeq(s) == IF Len(s) = 1 THEN s[1] ELSE QMax(s[1], QMaxSeq(Tail(s)))
RECURSIVE QMinSeq(_)
QMinSeq(s) == IF Len(s) = 1 THEN s[1] ELSE QMin(s[1], QMinSeq(Tail(s)))

\* cos and sin of k quarter turns.
Cos4(k) == CASE k % 4 = 0 -> I(1) [] k % 4 = 2 -> I(-1) [] OTHER -> I(0)
Sin4(k) == CASE k % 4 = 1 -> I(1) [] k % 4 = 3 -> I(-1) [] OTHER -> I(0)

\* ---------------------------------------------------------------- sequences
Last(s) == s[Len(s)]
Front(s) == SubSeq(s, 1, Len(s) - 1)
Range(s) == {s[i] : i \in 1..Len(s)}
RECURSIVE SelectIdx(_, _, _)
\* The indices i of 1..n, in order, for which keep[i] holds.
SelectIdx(keep, i, n) ==
    IF i > n THEN <<>>
    ELSE IF keep[i] THEN <<i>> \o SelectIdx(keep, i + 1, n)
    ELSE SelectIdx(keep, i + 1, n)
\* indexOf: the first index holding v, 0 when absent.
IndexOf(s, v) ==
    IF \E i \in 1..Len(s) : s[i] = v
    THEN CHOOSE i \in 1..Len(s) : s[i] = v /\ \A j \in 1..(i - 1) : s[j] # v
    ELSE 0
SetMax(S) == CHOOSE m \in S : \A x \in S : x <= m

\* ----------------------------------------------------------------- geometry
Pt(x, y) == [x |-> x, y |-> y]

\* AnnotationModel.calculateBoundingBox: min/max over the points.
calculateBoundingBox(points) ==
    LET xCoords == [i \in 1..Len(points) |-> points[i].x]
        yCoords == [i \in 1..Len(points) |-> points[i].y]
        minX == QMinSeq(xCoords)
        minY == QMinSeq(yCoords)
        maxX == QMaxSeq(xCoords)
        maxY == QMaxSeq(yCoords)
    IN  [x |-> minX, y |-> minY, w |-> QSub(maxX, minX), h |-> QSub(maxY, minY)]

ROTATION_HANDLE_OFFSET == 20

\* CanvasRenderer.getHandles: the 9 handle positions, rotated about the centre.
getHandles(box, scale) ==
    LET centerX == QAdd(box.x, QHalf(box.w))
        centerY == QAdd(box.y, QHalf(box.h))
        hw == QHalf(box.w)
        hh == QHalf(box.h)
        corners == [nw |-> Pt(QNeg(hw), QNeg(hh)), ne |-> Pt(hw, QNeg(hh)),
                    sw |-> Pt(QNeg(hw), hh),       se |-> Pt(hw, hh),
                    n  |-> Pt(I(0), QNeg(hh)),     s  |-> Pt(I(0), hh),
                    w  |-> Pt(QNeg(hw), I(0)),     e  |-> Pt(hw, I(0)),
                    rotation |-> Pt(I(0), QSub(QNeg(hh), QDiv(I(ROTATION_HANDLE_OFFSET), scale)))]
        c == Cos4(box.angle)
        s == Sin4(box.angle)
    IN  [key \in DOMAIN corners |->
            Pt(QAdd(centerX, QSub(QMul(corners[key].x, c), QMul(corners[key].y, s))),
               QAdd(centerY, QAdd(QMul(corners[key].x, s), QMul(corners[key].y, c))))]

\* CanvasRenderer.isPointInPolygon: ray casting, edges (j, i) with wrap-around.
isPointInPolygon(px, py, points) ==
    LET n == Len(points)
        Prev(i) == IF i = 1 THEN n ELSE i - 1
        Intersect(i) ==
            LET xi == points[i].x
                yi == points[i].y
                xj == points[Prev(i)].x
                yj == points[Prev(i)].y
            IN  /\ QLt(py, yi) # QLt(py, yj)
                /\ QLt(px, QAdd(QDiv(QMul(QSub(xj, xi), QSub(py, yi)), QSub(yj, yi)), xi))
    IN  Cardinality({i \in 1..n : Intersect(i)}) % 2 = 1

\* CanvasRenderer.isPointInBox: strict test in the box's unrotated frame.
isPointInBox(px, py, box) ==
    IF box.type = "poly" THEN isPointInPolygon(px, py, box.points)
    ELSE
        LET centerX == QAdd(box.x, QHalf(box.w))
            centerY == QAdd(box.y, QHalf(box.h))
            dx == QSub(px, centerX)
            dy == QSub(py, centerY)
            c == Cos4(-box.angle)
            s == Sin4(-box.angle)
            rotatedX == QSub(QMul(dx, c), QMul(dy, s))
            rotatedY == QAdd(QMul(dx, s), QMul(dy, c))
        IN  QLt(QAbs(rotatedX), QHalf(box.w)) /\ QLt(QAbs(rotatedY), QHalf(box.h))

\* A faulty isPointInCircle: the open disk.
isPointInCircle_Open(px, py, cx, cy, r) ==
    LET dx == QSub(px, cx)
        dy == QSub(py, cy)
    IN  QLt(QAdd(QMul(dx, dx), QMul(dy, dy)), QMul(r, r))

\* CanvasRenderer.isPointInCircle: closed disk.
isPointInCircle(px, py, cx, cy, r) ==
    LET dx == QSub(px, cx)
        dy == QSub(py, cy)
    IN  QLe(QAdd(QMul(dx, dx), QMul(dy, dy)), QMul(r, r))

\* ---------------------------------------------------------- AnnotationModel
\* The limits of the zoom (exported constants of model.js).
MIN_SCALE == Q(1, 5)
MAX_SCALE == 5
\* A model object m has the fields of AnnotationModel, plus
\*   issued               the ids handed out since the last resetAppState, in order
\*   shareK, arrShared, ref   which objects of the live list are the very objects
\*                        of a history snapshot: the setter stores the array it
\*                        is given, so after undo()/redo() this.boxes IS the
\*                        array history[shareK] (arrShared) and boxes[i] IS the
\*                        object history[shareK][ref[i]] (ref[i] > 0).
\*   pathRef              pathRef[i]: boxes[i].points IS the viewmodel's
\*                        currentPath array (addPolygon stores the array it is
\*                        given), until one of the two is assigned a new array.
NotDefined == "Not defined"
NoImage == [loaded |-> FALSE, naturalWidth |-> 0, naturalHeight |-> 0]
NoRect == [x |-> I(0), y |-> I(0), w |-> I(0), h |-> I(0), set |-> FALSE]

Ids(boxes) == [i \in 1..Len(boxes) |-> boxes[i].id]

\* boxes.find(b => b.id === id): the first index with that id, 0 when absent.
FindBox(boxes, id) == IndexOf(Ids(boxes), id)

\* get currentAnnotations: JSON.parse(JSON.stringify(boxes)), a copy that shares
\* no object with the live list (every field of a shape is JSON-safe).
currentAnnotations(m) == m.boxes

\* No live object is a snapshot's object any more: forget the snapshot.
Unshare(m) ==
    IF ~m.arrShared /\ \A i \in 1..Len(m.ref) : m.ref[i] = 0
    THEN [m EXCEPT !.shareK = 0] ELSE m

\* A faulty setter: the allocator restarts at the number of shapes instead of
\* above the largest id.
SetCurrentAnnotations_Count(m, newBoxes, k) ==
    [m EXCEPT !.boxes = newBoxes,
              !.nextId = Len(newBoxes),
              !.shareK = k,
              !.arrShared = (k # 0),
              !.ref = [i \in 1..Len(newBoxes) |-> IF k # 0 THEN i ELSE 0],
              !.pathRef = [i \in 1..Len(newBoxes) |-> FALSE]]

\* set currentAnnotations(newBoxes): stores the array itself; k is the index in
\* history of that array (0 when it is no snapshot).
SetCurrentAnnotations(m, newBoxes, k) ==
    [m EXCEPT !.boxes = newBoxes,
              !.nextId = IF Len(newBoxes) # 0
                         THEN SetMax(Range(Ids(newBoxes)) \cup {0}) + 1
                         ELSE 0,
              !.shareK = k,
              !.arrShared = (k # 0),
              !.ref = [i \in 1..Len(newBoxes) |-> IF k # 0 THEN i ELSE 0],
              !.pathRef = [i \in 1..Len(newBoxes) |-> FALSE]]

\* this.boxes.push(b): reaches the snapshot too when the array is shared.
PushBox(m, b) ==
    [m EXCEPT !.boxes = Append(@, b),
              !.ref = Append(@, IF m.arrShared THEN Len(m.history[m.shareK]) + 1 ELSE 0),
              !.pathRef = Append(@, FALSE),
              !.history = IF m.arrShared
                          THEN [@ EXCEPT ![m.shareK] = Append(@, b)]
                          ELSE @]

\* An assignment to fields of the object boxes[i] (box.x = ..., box.points = ...).
PutBox(m, i, b) ==
    [m EXCEPT !.boxes[i] = b,
              !.history = IF m.ref[i] # 0
                          THEN [@ EXCEPT ![m.shareK][m.ref[i]] = b]
                          ELSE @]

\* The same with box.points assigned a new array (points.map(...)).
PutBoxPoints(m, i, b) == [PutBox(m, i, b) EXCEPT !.pathRef[i] = FALSE]

NewRect(id, r) ==
    [id |-> id, type |-> "rect", x |-> r.x, y |-> r.y, w |-> r.w, h |-> r.h,
     angle |-> 0, text |-> NotDefined, isTextOnly |-> FALSE, visible |-> TRUE,
     points |-> <<>>]

\* addBox({x, y, w, h})
addBox(m, r) ==
    LET newBox == NewRect(m.nextId, r)
    IN  PushBox([m EXCEPT !.nextId = @ + 1, !.issued = Append(@, m.nextId)], newBox)

\* addPolygon(points): the new polygon keeps the points array itself.
addPolygon(m, points) ==
    LET bb == calculateBoundingBox(points)
        newPoly == [NewRect(m.nextId, bb) EXCEPT !.type = "poly", !.points = points]
        m1 == PushBox([m EXCEPT !.nextId = @ + 1, !.issued = Append(@, m.nextId)], newPoly)
    IN  [m1 EXCEPT !.pathRef[Len(m1.boxes)] = TRUE]

COPY_OFFSET == 10
\* A faulty copyBox(): the points of a polygon are not moved with its bounds.
copyBox_KeepsPoints(m, idToCopy) ==
    LET i == FindBox(m.boxes, idToCopy)
    IN  IF i = 0 THEN [m |-> m, id |-> -1]
        ELSE
            LET newBox == [m.boxes[i] EXCEPT !.id = m.nextId,
                                              !.x = QAdd(@, I(COPY_OFFSET)),
                                              !.y = QAdd(@, I(COPY_OFFSET))]
            IN  [m |-> PushBox([m EXCEPT !.nextId = @ + 1,
                                         !.issued = Append(@, m.nextId)], newBox),
                 id |-> newBox.id]

\* copyBox(idToCopy): [m, id] with id = -1 for the null result.
copyBox(m, idToCopy) ==
    LET i == FindBox(m.boxes, idToCopy)
    IN  IF i = 0 THEN [m |-> m, id |-> -1]
        ELSE
            LET boxToCopy == m.boxes[i]
                moved == [boxToCopy EXCEPT !.id = m.nextId,
                                           !.x = QAdd(@, I(COPY_OFFSET)),
                                           !.y = QAdd(@, I(COPY_OFFSET))]
                Shift(p) == Pt(QAdd(p.x, I(COPY_OFFSET)), QAdd(p.y, I(COPY_OFFSET)))
                newBox == IF moved.type = "poly"
                          THEN [moved EXCEPT !.points = [j \in 1..Len(@) |-> Shift(@[j])]]
                          ELSE moved
            IN  [m |-> PushBox([m EXCEPT !.nextId = @ + 1,
                                         !.issued = Append(@, m.nextId)], newBox),
                 id |-> newBox.id]

\* deleteBox(idToDelete): filter builds a new array of the same objects.
deleteBox(m, idToDelete) ==
    LET keep == [i \in 1..Len(m.boxes) |-> m.boxes[i].id # idToDelete]
        idx == SelectIdx(keep, 1, Len(m.boxes))
    IN  Unshare([m EXCEPT !.boxes = [j \in 1..Len(idx) |-> m.boxes[idx[j]]],
                          !.ref = [j \in 1..Len(idx) |-> m.ref[idx[j]]],
                          !.pathRef = [j \in 1..Len(idx) |-> m.pathRef[idx[j]]],
                          !.arrShared = FALSE])

\* A faulty saveState(): the redo stack is not cleared.
saveState_KeepsRedo(m) ==
    IF m.isUndoRedoAction THEN m
    ELSE [m EXCEPT !.history = Append(@, currentAnnotations(m))]

\* saveState()
saveState(m) ==
    IF m.isUndoRedoAction THEN m
    ELSE [m EXCEPT !.history = Append(@, currentAnnotations(m)),
                   !.redoStack = <<>>]

\* A faulty undo(): at the floor it still drops the redo stack.
undo_ClearsAtFloor(m) ==
    IF Len(m.history) <= 1
    THEN [ret |-> FALSE, m |-> [m EXCEPT !.redoStack = <<>>]]
    ELSE
        LET m1 == [m EXCEPT !.redoStack = Append(@, Last(m.history)),
                            !.history = Front(@)]
            m2 == SetCurrentAnnotations(m1, Last(m1.history), Len(m1.history))
        IN  [ret |-> TRUE, m |-> m2]

\* undo(): [ret, m]
undo(m) ==
    IF Len(m.history) <= 1 THEN [ret |-> FALSE, m |-> m]
    ELSE
        LET m1 == [m EXCEPT !.redoStack = Append(@, Last(m.history)),
                            !.history = Front(@)]
            m2 == SetCurrentAnnotations(m1, Last(m1.history), Len(m1.history))
        IN  [ret |-> TRUE, m |-> m2]

\* redo(): [ret, m]
redo(m) ==
    IF Len(m.redoStack) = 0 THEN [ret |-> FALSE, m |-> m]
    ELSE
        LET nextState == Last(m.redoStack)
            m1 == [m EXCEPT !.redoStack = Front(@),
                            !.history = Append(@, nextState)]
            m2 == SetCurrentAnnotations(m1, nextState, Len(m1.history))
        IN  [ret |-> TRUE, m |-> m2]

\* resetAppState(): clears this.selectedBoxId, a field nothing reads; the
\* selection lives in this.selectedBoxIds, which is left as it was.
resetAppState(m) ==
    saveState([m EXCEPT !.image = NoImage,
                        !.boxes = <<>>,
                        !.selectedBoxId = "null",
                        !.nextId = 0,
                        !.scale = I(1),
                        !.panX = I(0),
                        !.panY = I(0),
                        !.selectionRect = NoRect,
                        !.history = <<>>,
                        !.redoStack = <<>>,
                        !.issued = <<>>,
                        !.shareK = 0,
                        !.arrShared = FALSE,
                        !.ref = <<>>,
                        !.pathRef = <<>>])

\* new AnnotationModel()
NewModel ==
    saveState([image |-> NoImage, boxes |-> <<>>, selectedBoxIds |-> <<>>,
               selectedBoxId |-> "undefined", nextId |-> 0,
               scale |-> I(1), panX |-> I(0), panY |-> I(0),
               selectionRect |-> NoRect,
               history |-> <<>>, redoStack |-> <<>>, isUndoRedoAction |-> FALSE,
               issued |-> <<>>, shareK |-> 0, arrShared |-> FALSE, ref |-> <<>>,
               pathRef |-> <<>>])

\* ------------------------------------------------------ AnnotationViewModel
\* A state S is [model, vm, view]: the model object, the viewmodel's own fields
\* and the view: its label input (isEditingText, the box it edits, its value),
\* the size of the canvas element and the size of its container.
NoPoint == [x |-> I(0), y |-> I(0), set |-> FALSE]

NewViewModel ==
    [isDrawing |-> FALSE, isDragging |-> FALSE, isResizing |-> FALSE,
     isRotating |-> FALSE, isPanning |-> FALSE, isDrawingSelection |-> FALSE,
     isDrawingMode |-> FALSE, isPenMode |-> FALSE, isTextMode |-> FALSE,
     isCanvasFocused |-> FALSE,
     resizeHandle |-> "null", drawingRect |-> NoRect,
     currentPath |-> <<>>, previewPoint |-> NoPoint,
     startX |-> I(0), startY |-> I(0), offsetX |-> I(0), offsetY |-> I(0),
     panStartX |-> I(0), panStartY |-> I(0),
     keys |-> [c \in {"Space", "Shift", "ShiftLeft"} |-> FALSE],
     currentAspectRatio |-> "1:1"]

\* The container of the canvas measures Container0 when the page is laid out; the
\* constructor's onWindowResize(), run with no image, gives the canvas that size.
Container0 == [width |-> 92, height |-> 92]
NewView ==
    [isEditingText |-> FALSE, editBoxId |-> -1, inputValue |-> "",
     containerRect |-> Container0, canvas |-> Container0]

\* String.prototype.trim on the values the label input takes.
Trim(v) == IF v = " " THEN "" ELSE v

\* The callback handleEditAnnotationText hands to createTextInput.
EditCallback(S, value) ==
    LET i == FindBox(S.model.boxes, S.view.editBoxId)
    IN  IF i = 0 THEN S
        ELSE
            LET currentBox == S.model.boxes[i]
                trimmedValue == Trim(value)
            IN  IF currentBox.text # trimmedValue
                   /\ ~(currentBox.text = NotDefined /\ trimmedValue = "")
                THEN [S EXCEPT !.model = saveState(PutBox(S.model, i,
                        [currentBox EXCEPT !.text = IF trimmedValue # ""
                                                    THEN trimmedValue
                                                    ELSE NotDefined]))]
                ELSE S

\* cleanup(saveValue) of AnnotationView.createTextInput; it removes the input
\* and ends in canvas.focus().
Cleanup(S, saveValue) ==
    IF ~S.view.isEditingText THEN S
    ELSE
        LET S1 == [S EXCEPT !.view.isEditingText = FALSE]
            S2 == IF saveValue THEN EditCallback(S1, S1.view.inputValue) ELSE S1
        IN  [S2 EXCEPT !.vm.isCanvasFocused = TRUE, !.view = NewView]

\* input.blur() on the label input, as selectBox and deselectAll call it.
BlurInput(S) == IF S.view.isEditingText THEN Cleanup(S, TRUE) ELSE S

\* canvas.focus(): the label input, when it has the focus, loses it.
FocusCanvas(S) == [BlurInput(S) EXCEPT !.vm.isCanvasFocused = TRUE]

\* A faulty selectBox(): with the modifier the id is added whether or not it is
\* selected already.
selectBox_AddsAgain(S, id, multiSelect) ==
    LET S1 == BlurInput(S)
    IN  [S1 EXCEPT !.model.selectedBoxIds = IF multiSelect THEN Append(@, id) ELSE <<id>>]

\* selectBox(id, multiSelect)
selectBox(S, id, multiSelect) ==
    LET S1 == BlurInput(S)
        sel == S1.model.selectedBoxIds
        index == IndexOf(sel, id)
    IN  IF multiSelect
        THEN IF index > 0
             THEN [S1 EXCEPT !.model.selectedBoxIds =
                       SubSeq(sel, 1, index - 1) \o SubSeq(sel, index + 1, Len(sel))]
             ELSE [S1 EXCEPT !.model.selectedBoxIds = Append(sel, id)]
        ELSE [S1 EXCEPT !.model.selectedBoxIds = <<id>>]

\* deselectAll(redraw)
deselectAll(S) == [BlurInput(S) EXCEPT !.model.selectedBoxIds = <<>>]

RECURSIVE DeleteAll(_, _)
DeleteAll(m, ids) ==
    IF ids = <<>> THEN m ELSE DeleteAll(deleteBox(m, ids[1]), Tail(ids))

\* A faulty deleteSelectedBoxes(): one snapshot for each deleted shape.
RECURSIVE DeleteAll_SavingEach(_, _)
DeleteAll_SavingEach(m, ids) ==
    IF ids = <<>> THEN m
    ELSE DeleteAll_SavingEach(saveState(deleteBox(m, ids[1])), Tail(ids))
deleteSelectedBoxes_SavesEach(S) ==
    IF S.view.isEditingText THEN S
    ELSE IF Len(S.model.selectedBoxIds) = 0 THEN S
    ELSE deselectAll([S EXCEPT !.model =
                          DeleteAll_SavingEach(S.model, S.model.selectedBoxIds)])

\* deleteSelectedBoxes()
deleteSelectedBoxes(S) ==
    IF S.view.isEditingText THEN S
    ELSE IF Len(S.model.selectedBoxIds) = 0 THEN S
    ELSE
        LET S1 == [S EXCEPT !.model = DeleteAll(S.model, S.model.selectedBoxIds)]
            S2 == deselectAll(S1)
        IN  [S2 EXCEPT !.model = saveState(S2.model)]

\* handleEditAnnotationText(event, boxId); createTextInput focuses the input.
handleEditAnnotationText(S, boxId) ==
    IF S.view.isEditingText THEN S
    ELSE
        LET i == FindBox(S.model.boxes, boxId)
        IN  IF i = 0 THEN S
            ELSE
                LET S1 == IF S.model.selectedBoxIds # <<boxId>>
                          THEN selectBox(S, boxId, FALSE) ELSE S
                    box == S1.model.boxes[i]
                IN  [S1 EXCEPT !.view = [isEditingText |-> TRUE,
                                         editBoxId |-> box.id,
                                         inputValue |-> IF box.text = NotDefined
                                                        THEN "" ELSE box.text],
                               !.vm.isCanvasFocused = FALSE]

\* handleTogglePenMode(true) .. handleToggleSelectionDrawing(true): the forceOff
\* calls the four toggles make on each other.
PenOff(S) == [S EXCEPT !.vm.isPenMode = FALSE,
                       !.vm.currentPath = <<>>,
                       !.vm.previewPoint = NoPoint,
                       !.model.pathRef = [i \in 1..Len(@) |-> FALSE]]
DrawingOff(S) == [S EXCEPT !.vm.isDrawingMode = FALSE]
TextOff(S) == [S EXCEPT !.vm.isTextMode = FALSE]
SelectionOff(S, forceOff) ==
    [S EXCEPT !.vm.isDrawingSelection = FALSE,
              !.model.selectionRect = IF ~forceOff THEN NoRect ELSE @]

\* handleToggleDrawingMode(forceOff)
handleToggleDrawingMode(S, forceOff) ==
    IF ~S.model.image.loaded /\ ~forceOff THEN S
    ELSE IF ~S.vm.isDrawingMode /\ ~forceOff
    THEN SelectionOff(TextOff(PenOff([S EXCEPT !.vm.isDrawingMode = TRUE])), TRUE)
    ELSE DrawingOff(S)

\* handleTogglePenMode(forceOff)
handleTogglePenMode(S, forceOff) ==
    IF ~S.model.image.loaded /\ ~forceOff THEN S
    ELSE IF ~S.vm.isPenMode /\ ~forceOff
    THEN SelectionOff(TextOff(DrawingOff([S EXCEPT !.vm.isPenMode = TRUE])), TRUE)
    ELSE PenOff(S)

\* A faulty handleToggleTextMode: the other tools are left as they are.
handleToggleTextMode_Alone(S, forceOff) ==
    IF ~S.model.image.loaded /\ ~forceOff THEN S
    ELSE IF ~S.vm.isTextMode /\ ~forceOff
    THEN [S EXCEPT !.vm.isTextMode = TRUE]
    ELSE TextOff(S)

\* handleToggleTextMode(forceOff)
handleToggleTextMode(S, forceOff) ==
    IF ~S.model.image.loaded /\ ~forceOff THEN S
    ELSE IF ~S.vm.isTextMode /\ ~forceOff
    THEN SelectionOff(PenOff(DrawingOff([S EXCEPT !.vm.isTextMode = TRUE])), TRUE)
    ELSE TextOff(S)

\* handleToggleSelectionDrawing(forceOff)
handleToggleSelectionDrawing(S, forceOff) ==
    IF ~S.model.image.loaded /\ ~forceOff THEN S
    ELSE IF ~S.vm.isDrawingSelection /\ ~forceOff
    THEN TextOff(PenOff(DrawingOff(deselectAll(
            [S EXCEPT !.vm.isDrawingSelection = TRUE,
                      !.model.selectionRect = NoRect]))))
    ELSE SelectionOff(S, forceOff)

\* handleAspectRatioChange(ratio)
handleAspectRatioChange(S, ratio) ==
    LET S1 == [S EXCEPT !.vm.currentAspectRatio = ratio,
                        !.model.selectionRect = NoRect]
    IN  IF S1.vm.isDrawingSelection
        THEN handleToggleSelectionDrawing(handleToggleSelectionDrawing(S1, TRUE), FALSE)
        ELSE S1

RECURSIVE CopyEach(_, _)
CopyEach(S, ids) ==
    IF ids = <<>> THEN S
    ELSE
        LET c == copyBox(S.model, ids[1])
            S1 == IF c.id # -1
                  THEN selectBox([S EXCEPT !.model = saveState(c.m)], c.id, FALSE)
                  ELSE S
        IN  CopyEach(S1, Tail(ids))

\* handleCopyAnnotation(): forEach runs over the selection array it started with.
handleCopyAnnotation(S) ==
    IF Len(S.model.selectedBoxIds) > 0 THEN CopyEach(S, S.model.selectedBoxIds) ELSE S

\* handleSelectAll()
handleSelectAll(S) == [S EXCEPT !.model.selectedBoxIds = Ids(S.model.boxes)]

\* handleUndo()
handleUndo(S) ==
    LET u == undo(S.model)
    IN  IF u.ret THEN deselectAll([S EXCEPT !.model = u.m]) ELSE S

\* handleRedo()
handleRedo(S) ==
    LET r == redo(S.model)
    IN  IF r.ret THEN deselectAll([S EXCEPT !.model = r.m]) ELSE S

\* A faulty handleResetView: it also drops the redo stack.
handleResetView_DropsRedo(S) ==
    [S EXCEPT !.model.scale = I(1), !.model.panX = I(0), !.model.panY = I(0),
              !.model.redoStack = <<>>]

\* handleResetView()
handleResetView(S) ==
    [S EXCEPT !.model.scale = I(1), !.model.panX = I(0), !.model.panY = I(0)]

\* The margin the canvas keeps inside its container.
MARGIN == 32

\* A faulty handleFitToScreen: the image is fitted to the width alone.
handleFitToScreen_Width(S, canvasWidth, canvasHeight) ==
    IF ~S.model.image.loaded THEN S
    ELSE
        LET scale == Q(canvasWidth, S.model.image.naturalWidth)
        IN  [S EXCEPT !.model.scale = scale,
                      !.model.panX = I(0),
                      !.model.panY = QHalf(QSub(I(canvasHeight),
                                               QMul(I(S.model.image.naturalHeight), scale)))]

\* handleFitToScreen(canvasWidth, canvasHeight)
handleFitToScreen(S, canvasWidth, canvasHeight) ==
    IF ~S.model.image.loaded THEN S
    ELSE
        LET naturalWidth == S.model.image.naturalWidth
            naturalHeight == S.model.image.naturalHeight
            scaleX == Q(canvasWidth, naturalWidth)
            scaleY == Q(canvasHeight, naturalHeight)
            scale == QMin(scaleX, scaleY)
        IN  [S EXCEPT !.model.scale = scale,
                      !.model.panX = QHalf(QSub(I(canvasWidth), QMul(I(naturalWidth), scale))),
                      !.model.panY = QHalf(QSub(I(canvasHeight), QMul(I(naturalHeight), scale)))]

\* A faulty zoomCanvas: the scale changes, the pan stays.
zoomCanvas_KeepsPan(S, factor, centerX, centerY) ==
    IF ~S.model.image.loaded THEN S
    ELSE [S EXCEPT !.model.scale =
             QMax(MIN_SCALE, QMin(I(MAX_SCALE), QMul(S.model.scale, factor)))]

\* zoomCanvas(factor, centerX, centerY)
zoomCanvas(S, factor, centerX, centerY) ==
    IF ~S.model.image.loaded THEN S
    ELSE
        LET oldScale == S.model.scale
            newScale == QMax(MIN_SCALE, QMin(I(MAX_SCALE), QMul(oldScale, factor)))
            scaleRatio == QDiv(newScale, oldScale)
        IN  IF newScale = oldScale THEN S
            ELSE [S EXCEPT !.model.panX =
                               QSub(centerX, QMul(QSub(centerX, S.model.panX), scaleRatio)),
                           !.model.panY =
                               QSub(centerY, QMul(QSub(centerY, S.model.panY), scaleRatio)),
                           !.model.scale = newScale]

\* handleWheel(e), e = [x, y, deltaY]
handleWheel(S, e) ==
    IF ~S.model.image.loaded \/ S.view.isEditingText THEN S
    ELSE zoomCanvas(S, IF e.deltaY > 0 THEN Q(9, 10) ELSE Q(11, 10), I(e.x), I(e.y))

\* handleZoomIn(); the canvas is shown at its own size, so that the width of
\* getBoundingClientRect() is canvas.width.
handleZoomIn(S) ==
    IF ~S.model.image.loaded THEN S
    ELSE zoomCanvas(S, Q(5, 4), QHalf(I(S.view.canvas.width)),
                    QHalf(I(S.view.canvas.height)))

\* A faulty handleZoomOut: it zooms out by the factor of the wheel.
handleZoomOut_WheelFactor(S) ==
    IF ~S.model.image.loaded THEN S
    ELSE zoomCanvas(S, Q(9, 10), QHalf(I(S.view.canvas.width)),
                    QHalf(I(S.view.canvas.height)))

\* handleZoomOut()
handleZoomOut(S) ==
    IF ~S.model.image.loaded THEN S
    ELSE zoomCanvas(S, Q(4, 5), QHalf(I(S.view.canvas.width)),
                    QHalf(I(S.view.canvas.height)))

\* Math.floor of a rational with a positive denominator.
Floor(a) == a[1] \div a[2]

\* onWindowResize(), with the container at S.view.containerRect
onWindowResize(S) ==
    LET containerRect == S.view.containerRect
    IN  IF ~S.model.image.loaded THEN [S EXCEPT !.view.canvas = containerRect]
        ELSE
            LET oldCanvasWidth == S.view.canvas.width
                oldCanvasHeight == S.view.canvas.height
                availableWidth == I(containerRect.width - MARGIN)
                availableHeight == I(containerRect.height - MARGIN)
                imageAspectRatio ==
                    Q(S.model.image.naturalWidth, S.model.image.naturalHeight)
                containerAspectRatio == QDiv(availableWidth, availableHeight)
                wide == QLt(containerAspectRatio, imageAspectRatio)
                newCanvasWidth == IF wide THEN availableWidth
                                  ELSE QMul(availableHeight, imageAspectRatio)
                newCanvasHeight == IF wide THEN QDiv(availableWidth, imageAspectRatio)
                                   ELSE availableHeight
                S1 == [S EXCEPT !.view.canvas =
                          [width |-> IF Floor(newCanvasWidth) < 1 THEN 1
                                     ELSE Floor(newCanvasWidth),
                           height |-> IF Floor(newCanvasHeight) < 1 THEN 1
                                      ELSE Floor(newCanvasHeight)]]
            IN  IF oldCanvasWidth > 0 /\ oldCanvasHeight > 0
                   /\ (newCanvasWidth # I(oldCanvasWidth)
                       \/ newCanvasHeight # I(oldCanvasHeight))
                THEN handleResetView(S1)
                ELSE S1

\* handleImageLoad(file), the newImage.onload callback
handleImageLoad(S, img) ==
    LET m1 == resetAppState(S.model)
        m2 == [m1 EXCEPT !.image = img, !.scale = I(1), !.panX = I(0), !.panY = I(0)]
    IN  [onWindowResize([S EXCEPT !.model = m2]) EXCEPT !.model = saveState(@)]

\* handleConfirmUnload(): a canvas without its width and height attributes
\* measures 300 x 150; canvasContainer.focus() takes the focus off the canvas.
handleConfirmUnload(S) ==
    [S EXCEPT !.model = resetAppState(S.model), !.vm.isCanvasFocused = FALSE,
              !.view.canvas = [width |-> 300, height |-> 150]]

\* handleImportAnnotations(file), the reader.onload callback, on the parsed
\* payload p = [format, firstX, boxes].
handleImportAnnotations(S, p) ==
    IF p.format \notin {"array", "wrapped"} THEN S
    ELSE IF Len(p.boxes) > 0 /\ p.firstX = "undefined" THEN S
    ELSE
        LET m1 == [S.model EXCEPT !.boxes = <<>>, !.history = <<>>,
                                  !.redoStack = <<>>, !.nextId = 0,
                                  !.selectedBoxId = "null", !.issued = <<>>]
            m2 == SetCurrentAnnotations(m1, p.boxes, 0)
            S1 == deselectAll([S EXCEPT !.model = m2])
        IN  [S1 EXCEPT !.model = saveState(S1.model)]

\* ------------------------------------------------------------ pointer events
\* The canvas sits at the viewport origin (getBoundingClientRect() is (0, 0)).
screenToWorldX(S, x) == QDiv(QSub(I(x), S.model.panX), S.model.scale)
screenToWorldY(S, y) == QDiv(QSub(I(y), S.model.panY), S.model.scale)

HANDLE_RADIUS == 8
ROTATION_RADIUS == 10
CLOSE_RADIUS == 8
MIN_DRAW == 5

ResizeHandles == <<"nw", "ne", "sw", "se", "n", "s", "w", "e">>
oppositeHandleMap ==
    [nw |-> "se", ne |-> "sw", sw |-> "ne", se |-> "nw",
     n |-> "s", s |-> "n", w |-> "e", e |-> "w"]
\* this.resizeHandle.includes(ch)
Includes(handle, ch) ==
    CASE ch = "e" -> handle \in {"ne", "se", "e"}
      [] ch = "w" -> handle \in {"nw", "sw", "w"}
      [] ch = "s" -> handle \in {"sw", "se", "s"}
      [] ch = "n" -> handle \in {"nw", "ne", "n"}

\* The first resize handle, in the order getHandles lists them, whose disk holds
\* the point; 0 when none does.
HitHandle(px, py, handles, handleRadius) ==
    LET Hit(i) == isPointInCircle(px, py, handles[ResizeHandles[i]].x,
                                  handles[ResizeHandles[i]].y, handleRadius)
    IN  IF \E i \in 1..8 : Hit(i)
        THEN CHOOSE i \in 1..8 : Hit(i) /\ \A j \in 1..(i - 1) : ~Hit(j)
        ELSE 0

\* A faulty hit test: the first box of the list that is visible and holds the
\* point.
TopHit_First(boxes, px, py) ==
    LET Hit(i) == boxes[i].visible /\ isPointInBox(px, py, boxes[i])
    IN  IF \E i \in 1..Len(boxes) : Hit(i)
        THEN CHOOSE i \in 1..Len(boxes) : Hit(i) /\ \A j \in 1..(i - 1) : ~Hit(j)
        ELSE 0

\* The last box of the list (the topmost) that is visible and holds the point;
\* 0 when none does.
TopHit(boxes, px, py) ==
    LET Hit(i) == boxes[i].visible /\ isPointInBox(px, py, boxes[i])
    IN  IF \E i \in 1..Len(boxes) : Hit(i)
        THEN CHOOSE i \in 1..Len(boxes) : Hit(i) /\ \A j \in (i + 1)..Len(boxes) : ~Hit(j)
        ELSE 0

RECURSIVE PushPathPoint(_, _, _)
\* this.currentPath.push(p), seen by every polygon whose points array it is.
PushPathPoint(m, p, i) ==
    IF i > Len(m.boxes) THEN m
    ELSE IF m.pathRef[i]
    THEN PushPathPoint(PutBox(m, i, [m.boxes[i] EXCEPT !.points = Append(@, p)]), p, i + 1)
    ELSE PushPathPoint(m, p, i + 1)

\* handleMouseDown, the pen-tool part.
MouseDownPen(S) ==
    LET path == S.vm.currentPath
        startX == S.vm.startX
        startY == S.vm.startY
        ddx == QSub(startX, path[1].x)
        ddy == QSub(startY, path[1].y)
        r == QDiv(I(CLOSE_RADIUS), S.model.scale)
    IN  IF Len(path) > 2
           /\ QLt(QAdd(QMul(ddx, ddx), QMul(ddy, ddy)), QMul(r, r))
        THEN
            LET m1 == saveState(addPolygon(S.model, path))
                newId == Last(m1.boxes).id
                S1 == handleTogglePenMode([S EXCEPT !.model = m1], FALSE)
            IN  handleEditAnnotationText(selectBox(S1, newId, FALSE), newId)
        ELSE [S EXCEPT !.vm.currentPath = Append(path, Pt(startX, startY)),
                       !.vm.previewPoint = NoPoint,
                       !.model = PushPathPoint(S.model, Pt(startX, startY), 1)]

\* handleMouseDown, from the hit test of the boxes on.
MouseDownHit(S, ctrl) ==
    LET i == TopHit(S.model.boxes, S.vm.startX, S.vm.startY)
    IN  IF i # 0
        THEN
            LET box == S.model.boxes[i]
                S1 == IF IndexOf(S.model.selectedBoxIds, box.id) = 0
                      THEN selectBox(S, box.id, ctrl) ELSE S
            IN  [S1 EXCEPT !.vm.isDragging = TRUE,
                           !.vm.offsetX = QSub(S.vm.startX, box.x),
                           !.vm.offsetY = QSub(S.vm.startY, box.y)]
        ELSE IF ~S.vm.isDragging /\ ~S.vm.isResizing /\ ~S.vm.isRotating
        THEN
            LET S1 == deselectAll(S)
            IN  IF S1.vm.isDrawingMode \/ S1.vm.isTextMode \/ S1.vm.isDrawingSelection
                THEN [S1 EXCEPT !.vm.isDrawing = TRUE] ELSE S1
        ELSE S

\* handleMouseDown, the handle check for a single selection. getHandles throws
\* on the undefined box of a selected id that is not in the list: the handler
\* ends there.
MouseDownHandles(S, ctrl) ==
    LET i == FindBox(S.model.boxes, S.model.selectedBoxIds[1])
    IN  IF i = 0 THEN S
        ELSE
            LET selectedBox == S.model.boxes[i]
                handles == getHandles(selectedBox, S.model.scale)
                handleRadius == QDiv(I(HANDLE_RADIUS), S.model.scale)
                rotationRadius == QDiv(I(ROTATION_RADIUS), S.model.scale)
                h == IF selectedBox.isTextOnly THEN 0
                     ELSE HitHandle(S.vm.startX, S.vm.startY, handles, handleRadius)
            IN  IF isPointInCircle(S.vm.startX, S.vm.startY, handles.rotation.x,
                                   handles.rotation.y, rotationRadius)
                THEN [S EXCEPT !.vm.isRotating = TRUE]
                ELSE IF h # 0
                THEN [S EXCEPT !.vm.isResizing = TRUE,
                               !.vm.resizeHandle = ResizeHandles[h],
                               !.vm.offsetX = handles[oppositeHandleMap[ResizeHandles[h]]].x,
                               !.vm.offsetY = handles[oppositeHandleMap[ResizeHandles[h]]].y]
                ELSE MouseDownHit(S, ctrl)

\* handleMouseDown(e), e = [x, y, button, ctrl]
handleMouseDown(S, e) ==
    LET S0 == FocusCanvas(S)
    IN  IF S0.vm.keys["Space"] \/ e.button = 1
        THEN [S0 EXCEPT !.vm.isPanning = TRUE,
                        !.vm.panStartX = QSub(I(e.x), S0.model.panX),
                        !.vm.panStartY = QSub(I(e.y), S0.model.panY)]
        ELSE IF e.button # 0 \/ S0.view.isEditingText THEN S0
        ELSE
            LET S1 == [S0 EXCEPT !.vm.startX = screenToWorldX(S0, e.x),
                                 !.vm.startY = screenToWorldY(S0, e.y)]
            IN  IF S1.vm.isPenMode THEN MouseDownPen(S1)
                ELSE IF Len(S1.model.selectedBoxIds) = 1
                THEN MouseDownHandles(S1, e.ctrl)
                ELSE MouseDownHit(S1, e.ctrl)

\* Math.sign
QSign(a) == IF a[1] > 0 THEN I(1) ELSE IF a[1] < 0 THEN I(-1) ELSE I(0)
\* (v || 1)
OrOne(a) == IF a[1] = 0 THEN I(1) ELSE a

\* "16:9".split(":").map(Number)
RatioOf(ratio) ==
    CASE ratio = "1:1"  -> <<1, 1>>
      [] ratio = "4:3"  -> <<4, 3>>
      [] ratio = "16:9" -> <<16, 9>>

\* Math.atan2(dy, dx) + Math.PI / 2 in quarter turns, for a direction along an
\* axis; -1 for any other direction, which the model does not represent.
QuarterTurn(dx, dy) ==
    CASE dx[1] > 0 /\ dy[1] = 0 -> 1
      [] dx[1] = 0 /\ dy[1] > 0 -> 2
      [] dx[1] < 0 /\ dy[1] = 0 -> 3
      [] dx[1] = 0 /\ dy[1] < 0 -> 0
      [] dx[1] = 0 /\ dy[1] = 0 -> 1
      [] OTHER -> -1

\* The indices of the boxes whose id is selected, in list order.
SelectedIdx(m) ==
    SelectIdx([i \in 1..Len(m.boxes) |-> IndexOf(m.selectedBoxIds, m.boxes[i].id) # 0],
              1, Len(m.boxes))

\* A faulty drawing move: the candidate of the crop tool is not snapped to the
\* aspect ratio.
MoveDrawing_Free(S, mouseX, mouseY) ==
    LET width == QSub(mouseX, S.vm.startX)
        height == QSub(mouseY, S.vm.startY)
    IN  [S EXCEPT !.vm.drawingRect =
            [x |-> IF width[1] > 0 THEN S.vm.startX ELSE QAdd(S.vm.startX, width),
             y |-> IF height[1] > 0 THEN S.vm.startY ELSE QAdd(S.vm.startY, height),
             w |-> QAbs(width), h |-> QAbs(height), set |-> TRUE]]

\* handleMouseMove, the drawing part: the candidate rectangle.
MoveDrawing(S, mouseX, mouseY) ==
    LET width0 == QSub(mouseX, S.vm.startX)
        height0 == QSub(mouseY, S.vm.startY)
        r == RatioOf(S.vm.currentAspectRatio)
        targetRatio == Q(r[1], r[2])
        crop == S.vm.isDrawingSelection
        wide == QLt(targetRatio, QDiv(QAbs(width0), OrOne(QAbs(height0))))
        side == QMax(QAbs(width0), QAbs(height0))
        square == ~S.vm.isDrawingSelection /\ S.vm.keys["Shift"]
        width == IF crop /\ wide
                 THEN QMul(QMul(OrOne(QAbs(height0)), targetRatio), QSign(width0))
                 ELSE IF square THEN QMul(side, QSign(width0)) ELSE width0
        height == IF crop /\ ~wide
                  THEN QMul(QDiv(OrOne(QAbs(width0)), targetRatio), QSign(height0))
                  ELSE IF square THEN QMul(side, QSign(height0)) ELSE height0
    IN  [S EXCEPT !.vm.drawingRect =
            [x |-> IF width[1] > 0 THEN S.vm.startX ELSE QAdd(S.vm.startX, width),
             y |-> IF height[1] > 0 THEN S.vm.startY ELSE QAdd(S.vm.startY, height),
             w |-> QAbs(width), h |-> QAbs(height), set |-> TRUE]]

\* handleMouseMove, the rotating part (k is the new angle in quarter turns).
MoveRotating(S, i, k) ==
    LET box == S.model.boxes[i]
        centerX == QAdd(box.x, QHalf(box.w))
        centerY == QAdd(box.y, QHalf(box.h))
        angleDiff == k - box.angle
        c == Cos4(angleDiff)
        sn == Sin4(angleDiff)
        Rot(p) ==
            LET relX == QSub(p.x, centerX)
                relY == QSub(p.y, centerY)
            IN  Pt(QAdd(centerX, QSub(QMul(relX, c), QMul(relY, sn))),
                   QAdd(centerY, QAdd(QMul(relX, sn), QMul(relY, c))))
    IN  IF box.type = "poly"
        THEN [S EXCEPT !.model = PutBoxPoints(S.model, i,
                  [box EXCEPT !.points = [j \in 1..Len(@) |-> Rot(@[j])], !.angle = k])]
        ELSE [S EXCEPT !.model = PutBox(S.model, i, [box EXCEPT !.angle = k])]

RECURSIVE DragEach(_, _, _, _)
DragEach(m, idx, dx, dy) ==
    IF idx = <<>> THEN m
    ELSE
        LET i == idx[1]
            box == m.boxes[i]
            moved == [box EXCEPT !.x = QAdd(@, dx), !.y = QAdd(@, dy)]
            Shift(p) == Pt(QAdd(p.x, dx), QAdd(p.y, dy))
        IN  DragEach(IF box.type = "poly"
                     THEN PutBoxPoints(m, i, [moved EXCEPT !.points = [j \in 1..Len(@) |-> Shift(@[j])]])
                     ELSE PutBox(m, i, moved),
                     Tail(idx), dx, dy)

\* handleMouseMove, the dragging part.
MoveDragging(S, idx, mouseX, mouseY) ==
    LET dx == QSub(mouseX, S.vm.startX)
        dy == QSub(mouseY, S.vm.startY)
    IN  [S EXCEPT !.model = DragEach(S.model, idx, dx, dy),
                  !.vm.startX = mouseX,
                  !.vm.startY = mouseY]

\* handleMouseMove, the resizing part.
MoveResizing(S, i, mouseX, mouseY) ==
    LET box == S.model.boxes[i]
        rh == S.vm.resizeHandle
        pivotX == S.vm.offsetX
        pivotY == S.vm.offsetY
        cosA == Cos4(box.angle)
        sinA == Sin4(box.angle)
        dx == QSub(mouseX, pivotX)
        dy == QSub(mouseY, pivotY)
        rotatedMouseX == QAdd(QMul(dx, cosA), QMul(dy, sinA))
        rotatedMouseY == QAdd(QMul(QNeg(dx), sinA), QMul(dy, cosA))
        minDim == QDiv(I(1), S.model.scale)
        w1 == IF Includes(rh, "w") THEN QMax(minDim, QNeg(rotatedMouseX))
              ELSE IF Includes(rh, "e") THEN QMax(minDim, rotatedMouseX)
              ELSE box.w
        h1 == IF Includes(rh, "n") THEN QMax(minDim, QNeg(rotatedMouseY))
              ELSE IF Includes(rh, "s") THEN QMax(minDim, rotatedMouseY)
              ELSE box.h
        keep == S.vm.keys["Shift"] /\ rh \in {"nw", "ne", "sw", "se"}
        aspectRatio == IF box.w[1] > 0 /\ box.h[1] > 0 THEN QDiv(box.w, box.h) ELSE I(1)
        \* a corner handle always includes "e" or "w"
        newWidth == IF keep THEN QMax(minDim, w1) ELSE w1
        newHeight == IF keep THEN QMax(minDim, QDiv(w1, aspectRatio)) ELSE h1
        rotatedCenterX == IF Includes(rh, "w") THEN QNeg(QHalf(newWidth))
                          ELSE IF Includes(rh, "e") THEN QHalf(newWidth)
                          ELSE I(0)
        rotatedCenterY == IF Includes(rh, "n") THEN QNeg(QHalf(newHeight))
                          ELSE IF Includes(rh, "s") THEN QHalf(newHeight)
                          ELSE I(0)
        centerX == QAdd(pivotX, QSub(QMul(rotatedCenterX, cosA), QMul(rotatedCenterY, sinA)))
        centerY == QAdd(pivotY, QAdd(QMul(rotatedCenterX, sinA), QMul(rotatedCenterY, cosA)))
        newX == QAdd(QSub(centerX, QMul(QHalf(newWidth), cosA)), QMul(QHalf(newHeight), sinA))
        newY == QSub(QSub(centerY, QMul(QHalf(newWidth), sinA)), QMul(QHalf(newHeight), cosA))
        oldW == IF box.w[1] > 0 THEN box.w ELSE I(1)
        oldH == IF box.h[1] > 0 THEN box.h ELSE I(1)
        scaleX == QDiv(newWidth, oldW)
        scaleY == QDiv(newHeight, oldH)
        Scale(p) ==
            LET vecX == QSub(p.x, pivotX)
                vecY == QSub(p.y, pivotY)
                rotatedVecX == QMul(QAdd(QMul(vecX, cosA), QMul(vecY, sinA)), scaleX)
                rotatedVecY == QMul(QAdd(QMul(QNeg(vecX), sinA), QMul(vecY, cosA)), scaleY)
                finalVecX == QSub(QMul(rotatedVecX, cosA), QMul(rotatedVecY, sinA))
            IN  \* the code adds finalVecX on both axes
                Pt(QAdd(pivotX, finalVecX), QAdd(pivotY, finalVecX))
        sized == [box EXCEPT !.x = newX, !.y = newY, !.w = newWidth, !.h = newHeight]
    IN  IF box.type = "poly"
        THEN [S EXCEPT !.model = PutBoxPoints(S.model, i,
                                    [sized EXCEPT !.points = [j \in 1..Len(@) |-> Scale(@[j])]])]
        ELSE [S EXCEPT !.model = PutBox(S.model, i, sized)]

\* The new angle of a rotating move, -1 when the model does not represent it;
\* 0 for a move that does not rotate.
MoveAngle(S, e) ==
    LET idx == SelectedIdx(S.model)
    IN  IF S.model.image.loaded /\ ~S.vm.isPanning
           /\ ~(S.vm.isPenMode /\ Len(S.vm.currentPath) > 0) /\ ~S.vm.isDrawing
           /\ S.vm.isRotating /\ Len(idx) = 1
        THEN LET box == S.model.boxes[idx[1]]
             IN  QuarterTurn(QSub(screenToWorldX(S, e.x), QAdd(box.x, QHalf(box.w))),
                             QSub(screenToWorldY(S, e.y), QAdd(box.y, QHalf(box.h))))
        ELSE 0

\* handleMouseMove(e), e = [x, y]
handleMouseMove(S, e) ==
    IF ~S.model.image.loaded THEN S
    ELSE IF S.vm.isPanning
    THEN [S EXCEPT !.model.panX = QSub(I(e.x), S.vm.panStartX),
                   !.model.panY = QSub(I(e.y), S.vm.panStartY)]
    ELSE
        LET mouseX == screenToWorldX(S, e.x)
            mouseY == screenToWorldY(S, e.y)
            idx == SelectedIdx(S.model)
        IN  IF S.vm.isPenMode /\ Len(S.vm.currentPath) > 0
            THEN [S EXCEPT !.vm.previewPoint = [x |-> mouseX, y |-> mouseY, set |-> TRUE]]
            ELSE IF S.vm.isDrawing THEN MoveDrawing(S, mouseX, mouseY)
            ELSE IF Len(idx) = 0 THEN S
            ELSE IF S.vm.isRotating /\ Len(idx) = 1
            THEN MoveRotating(S, idx[1], MoveAngle(S, e))
            ELSE IF S.vm.isDragging THEN MoveDragging(S, idx, mouseX, mouseY)
            ELSE IF S.vm.isResizing /\ Len(idx) = 1
            THEN MoveResizing(S, idx[1], mouseX, mouseY)
            ELSE S

RECURSIVE FinishEach(_, _, _)
\* handleMouseUp: the forEach over the selected ids that ends a gesture.
FinishEach(m, ids, absDims) ==
    IF ids = <<>> THEN m
    ELSE
        LET i == FindBox(m.boxes, ids[1])
        IN  IF i = 0 THEN FinishEach(m, Tail(ids), absDims)
            ELSE
                LET box == m.boxes[i]
                    bb == calculateBoundingBox(box.points)
                    b1 == IF box.type = "poly"
                          THEN [box EXCEPT !.x = bb.x, !.y = bb.y, !.w = bb.w, !.h = bb.h]
                          ELSE box
                    b2 == IF absDims
                          THEN [b1 EXCEPT !.w = QAbs(@), !.h = QAbs(@)]
                          ELSE b1
                IN  FinishEach(PutBox(m, i, b2), Tail(ids), absDims)

\* if (this.isDrawingMode) this.handleToggleDrawingMode(true), and the like
IfDrawingModeOff(S) == IF S.vm.isDrawingMode THEN handleToggleDrawingMode(S, TRUE) ELSE S
IfTextModeOff(S) == IF S.vm.isTextMode THEN handleToggleTextMode(S, TRUE) ELSE S
IfSelectionOff(S) == IF S.vm.isDrawingSelection THEN handleToggleSelectionDrawing(S, TRUE) ELSE S

\* handleMouseUp, a stroke that made a box: m1 is the model after addBox.
MouseUpAdded(S, m1) ==
    LET n == Len(m1.boxes)
        newId == m1.boxes[n].id
        m2 == IF S.vm.isTextMode
              THEN PutBox(m1, n, [m1.boxes[n] EXCEPT !.isTextOnly = TRUE])
              ELSE m1
    IN  IfTextModeOff(IfDrawingModeOff(
            handleEditAnnotationText(
                selectBox([S EXCEPT !.model = saveState(m2)], newId, FALSE), newId)))

\* A faulty end of a drawing stroke: a candidate of any size is committed.
MouseUpDrawing_AnySize(S, final) ==
    IF final.set
    THEN IF S.vm.isDrawingSelection
         THEN handleToggleSelectionDrawing([S EXCEPT !.model.selectionRect = final], TRUE)
         ELSE MouseUpAdded(S, addBox(S.model, final))
    ELSE IfSelectionOff(IfTextModeOff(IfDrawingModeOff(S)))

\* handleMouseUp, the end of a drawing stroke (isDrawing is false already).
MouseUpDrawing(S, final) ==
    IF final.set /\ QLt(I(MIN_DRAW), final.w) /\ QLt(I(MIN_DRAW), final.h)
    THEN IF S.vm.isDrawingSelection
         THEN handleToggleSelectionDrawing([S EXCEPT !.model.selectionRect = final], TRUE)
         ELSE MouseUpAdded(S, addBox(S.model, final))
    ELSE IfSelectionOff(IfTextModeOff(IfDrawingModeOff(S)))

\* handleMouseUp, the end of a drag, a resize or a rotation.
MouseUpGesture(S) ==
    IF S.vm.isDragging \/ S.vm.isResizing \/ S.vm.isRotating
    THEN [S EXCEPT !.model =
             saveState(FinishEach(S.model, S.model.selectedBoxIds,
                                  S.vm.isResizing \/ S.vm.isRotating))]
    ELSE S

\* handleMouseUp, its last assignments.
MouseUpReset(S) ==
    [S EXCEPT !.vm.isDragging = FALSE, !.vm.isResizing = FALSE,
              !.vm.isRotating = FALSE, !.vm.resizeHandle = "null",
              !.vm.startX = I(0), !.vm.startY = I(0),
              !.vm.offsetX = I(0), !.vm.offsetY = I(0)]

\* handleMouseUp(e), e = [x, y, button]
handleMouseUp(S, e) ==
    IF e.button # 0 THEN S
    ELSE IF S.vm.isPanning THEN [S EXCEPT !.vm.isPanning = FALSE]
    ELSE IF S.vm.isDrawing
    THEN MouseUpReset(MouseUpGesture(MouseUpDrawing(
             [S EXCEPT !.vm.drawingRect = NoRect, !.vm.isDrawing = FALSE],
             S.vm.drawingRect)))
    ELSE MouseUpReset(MouseUpGesture([S EXCEPT !.vm.drawingRect = NoRect]))

\* handleDoubleClick(e), e = [x, y]
handleDoubleClick(S, e) ==
    IF S.view.isEditingText THEN S
    ELSE
        LET i == TopHit(S.model.boxes, screenToWorldX(S, e.x), screenToWorldY(S, e.y))
        IN  IF i = 0 THEN S
            ELSE handleEditAnnotationText(selectBox(S, S.model.boxes[i].id, FALSE),
                                          S.model.boxes[i].id)

\* ------------------------------------------------------------- keyboard events
ArrowCodes == {"ArrowUp", "ArrowDown", "ArrowLeft", "ArrowRight"}
SHIFT_NUDGE == 10

\* this.keys[e.code] = v, for the codes the handlers read back
SetKey(S, code, v) ==
    IF code \in DOMAIN S.vm.keys THEN [S EXCEPT !.vm.keys[code] = v] ELSE S

RECURSIVE NudgeEach(_, _, _, _)
\* handleKeyDown: the forEach over the selected ids of an arrow key.
NudgeEach(S, ids, code, m) ==
    IF ids = <<>> THEN m
    ELSE
        LET i == FindBox(m.boxes, ids[1])
        IN  IF i = 0 THEN NudgeEach(S, Tail(ids), code, m)
            ELSE
                LET box == m.boxes[i]
                    amount == QDiv(I(IF S.vm.keys["Shift"] THEN SHIFT_NUDGE ELSE 1),
                                   m.scale)
                    dx == CASE code = "ArrowLeft" -> QNeg(amount)
                            [] code = "ArrowRight" -> amount
                            [] OTHER -> I(0)
                    dy == CASE code = "ArrowUp" -> QNeg(amount)
                            [] code = "ArrowDown" -> amount
                            [] OTHER -> I(0)
                    moved == [box EXCEPT !.x = QAdd(@, dx), !.y = QAdd(@, dy)]
                    Shift(p) == Pt(QAdd(p.x, dx), QAdd(p.y, dy))
                IN  NudgeEach(S, Tail(ids), code,
                              IF box.type = "poly"
                              THEN PutBoxPoints(m, i, [moved EXCEPT !.points = [j \in 1..Len(@) |-> Shift(@[j])]])
                              ELSE PutBox(m, i, moved))

\* handleKeyDown, the Escape part; done is TRUE when the handler returns there.
KeyDownEscape(S) ==
    IF S.vm.isPenMode THEN [done |-> TRUE, S |-> handleTogglePenMode(S, FALSE)]
    ELSE IF S.vm.isDrawingSelection
    THEN [done |-> TRUE, S |-> handleToggleSelectionDrawing(S, FALSE)]
    ELSE IF S.vm.isDrawing
    THEN LET S1 == [S EXCEPT !.vm.isDrawing = FALSE, !.vm.drawingRect = NoRect]
             S2 == IF S1.vm.isDrawingMode THEN handleToggleDrawingMode(S1, FALSE) ELSE S1
             S3 == IF S2.vm.isTextMode THEN handleToggleTextMode(S2, FALSE) ELSE S2
         IN  [done |-> TRUE, S |-> S3]
    ELSE [done |-> FALSE, S |-> S]

\* handleKeyDown, the part guarded by isCanvasFocused, before the Escape part.
KeyDownTools(S, e) ==
    IF ~S.model.image.loaded THEN S
    ELSE CASE e.code = "KeyB" -> handleToggleDrawingMode(S, FALSE)
           [] e.code = "KeyP" -> handleTogglePenMode(S, FALSE)
           [] e.code = "KeyT" -> handleToggleTextMode(S, FALSE)
           [] OTHER -> S

\* handleKeyDown, the keys that act on a non-empty selection.
KeyDownSelection(S, e) ==
    IF Len(S.model.selectedBoxIds) = 0 THEN S
    ELSE IF e.code \in {"Delete", "Backspace"} THEN deleteSelectedBoxes(S)
    ELSE IF e.code \in ArrowCodes
    THEN [S EXCEPT !.model = NudgeEach(S, S.model.selectedBoxIds, e.code, S.model)]
    ELSE S

\* handleKeyDown, the keys of the view: zoom, reset, fit.
KeyDownView(S, e) ==
    CASE e.code = "Equal" -> handleZoomIn(S)
      [] e.code = "Minus" -> handleZoomOut(S)
      [] e.code = "Digit0" -> handleResetView(S)
      [] e.code = "KeyF" ->
             handleFitToScreen(S, S.view.canvas.width, S.view.canvas.height)
      [] OTHER -> S

\* handleKeyDown, the shortcuts that do not need the canvas focus.
KeyDownShortcuts(S, e) ==
    KeyDownView(IF ~e.ctrl THEN S
                ELSE CASE e.code = "KeyC" -> handleCopyAnnotation(S)
                       [] e.code = "KeyA" -> handleSelectAll(S)
                       [] e.code = "KeyZ" -> handleUndo(S)
                       [] e.code = "KeyY" -> handleRedo(S)
                       [] e.code = "KeyD" /\ S.model.selectionRect.set ->
                              handleToggleSelectionDrawing(
                                  [S EXCEPT !.model.selectionRect = NoRect], TRUE)
                       [] OTHER -> S,
                e)

\* handleKeyDown(e), e = [code, ctrl]; e.key is "Escape" exactly for the code
\* "Escape". No dialog is open.
handleKeyDown(S, e) ==
    LET S0 == SetKey(S, e.code, TRUE)
    IN  IF S0.view.isEditingText THEN S0
        ELSE IF S0.vm.isCanvasFocused
        THEN
            LET S1 == KeyDownTools(S0, e)
                esc == IF e.code = "Escape" THEN KeyDownEscape(S1)
                       ELSE [done |-> FALSE, S |-> S1]
            IN  IF esc.done THEN esc.S
                ELSE KeyDownShortcuts(KeyDownSelection(esc.S, e), e)
        ELSE KeyDownShortcuts(S0, e)

\* handleKeyUp(e), e = [code]
handleKeyUp(S, e) ==
    LET S0 == SetKey(S, e.code, FALSE)
        S1 == IF e.code = "Space" THEN [S0 EXCEPT !.vm.isPanning = FALSE] ELSE S0
    IN  IF S1.view.isEditingText THEN S1
        ELSE IF S1.vm.isCanvasFocused /\ e.code \in ArrowCodes
                /\ Len(S1.model.selectedBoxIds) > 0
        THEN [S1 EXCEPT !.model = saveState(S1.model)]
        ELSE S1

\* The keydown listener of the label input, which runs before the document's.
InputKeyDown(S, e) ==
    IF ~S.view.isEditingText THEN S
    ELSE CASE e.code = "Enter" -> Cleanup(S, TRUE)
           [] e.code = "Escape" -> Cleanup(S, FALSE)
           [] OTHER -> S

\* --------------------------------------------------------------- the program
\* model, vm and view are the three objects of the application. The application
\* does not store the other two: buttonDown is the state of the pointer button in
\* use, nudges counts the arrow keys pressed so far.
VARIABLES model, vm, view, buttonDown, nudges
vars == <<model, vm, view, buttonDown, nudges>>

St == [model |-> model, vm |-> vm, view |-> view]

Init ==
    /\ model = NewModel
    /\ vm = NewViewModel
    /\ view = NewView
    /\ buttonDown = FALSE
    /\ nudges = 0

\* ------------------------------------------------------------------- inputs
Images == {[loaded |-> TRUE, naturalWidth |-> 60, naturalHeight |-> 60]}

\* Pointer positions: two opposite corners of a 30 x 30 square and its centre;
\* the corners of a right triangle with a 30 x 20 bounding box, the place of
\* its rotation handle, the middle of its right side and a place inside it.
PA == <<10, 10>>
PB == <<40, 40>>
PC == <<25, 25>>
P1 == <<10, 25>>
P2 == <<40, 25>>
P3 == <<40, 45>>
PR == <<25, 5>>
PE == <<40, 35>>
PI == <<35, 30>>

KeyCodes == {"Escape", "Enter", "Delete", "KeyA", "KeyC", "KeyZ", "KeyY"}

ImportedRect(id) == NewRect(id, [x |-> I(10), y |-> I(10), w |-> I(30), h |-> I(30)])
\* Parsed files: an empty array, a wrapped array of one annotation, an array
\* whose first element has no x, and an object that is neither an array nor a
\* wrapper.
Payloads ==
    {[format |-> "array", firstX |-> "undefined", boxes |-> <<>>],
     [format |-> "wrapped", firstX |-> "number", boxes |-> <<ImportedRect(1)>>],
     [format |-> "array", firstX |-> "undefined", boxes |-> <<ImportedRect(0)>>],
     [format |-> "object", firstX |-> "undefined", boxes |-> <<>>]}
\* Parsed files of two 30 x 30 squares that overlap, at (10, 10) and above it at
\* (20, 20), each of them visible or with "visible": false.
HitPayloads ==
    {[format |-> "array", firstX |-> "number",
      boxes |-> <<[ImportedRect(0) EXCEPT !.visible = v0],
                  [ImportedRect(1) EXCEPT !.x = I(20), !.y = I(20), !.visible = v1]>>] :
        v0, v1 \in BOOLEAN}
\* Parsed files of one 30 x 20 rectangle with its centre at (30, 30), turned by
\* 0, 1, 2 or 3 quarter turns.
TurnedPayloads ==
    {[format |-> "array", firstX |-> "number",
      boxes |-> <<[NewRect(0, [x |-> I(15), y |-> I(20), w |-> I(30), h |-> I(20)])
                       EXCEPT !.angle = k]>>] : k \in 0..3}
\* A parsed file whose first annotation has "x": null, which counts as 0 wherever
\* the program computes with it.
NullXPayloads ==
    {[format |-> "array", firstX |-> "null",
      boxes |-> <<[ImportedRect(1) EXCEPT !.x = I(0)]>>]}

\* A parsed file with the triangle P1 P2 P3.
ImportedPoly(id) ==
    [NewRect(id, [x |-> I(10), y |-> I(25), w |-> I(30), h |-> I(20)])
        EXCEPT !.type = "poly",
               !.points = <<Pt(I(P1[1]), I(P1[2])), Pt(I(P2[1]), I(P2[2])),
                            Pt(I(P3[1]), I(P3[2]))>>]
PolyPayloads ==
    {[format |-> "array", firstX |-> "number", boxes |-> <<ImportedPoly(0)>>]}

\* ------------------------------------------------------------------- bounds
InWorld(a) == QLe(I(0), a) /\ QLe(a, I(WorldMax))
InView(a) == QLe(I(-WorldMax), a) /\ QLe(a, I(WorldMax))
BoxInWorld(b) ==
    /\ InWorld(b.x) /\ InWorld(b.y) /\ InWorld(QAdd(b.x, b.w)) /\ InWorld(QAdd(b.y, b.h))
    /\ \A i \in 1..Len(b.points) : InWorld(b.points[i].x) /\ InWorld(b.points[i].y)

Bounded(S) ==
    /\ Len(S.model.boxes) <= MaxBoxes
    /\ Len(S.model.history) <= MaxHist
    /\ Len(S.model.issued) <= MaxIssued
    /\ Len(S.vm.currentPath) <= MaxPath
    /\ \A i \in 1..Len(S.model.boxes) : BoxInWorld(S.model.boxes[i])
    /\ InView(S.model.panX) /\ InView(S.model.panY)
    /\ S.model.scale[2] <= MaxDen
    /\ S.model.panX[2] <= MaxDen /\ S.model.panY[2] <= MaxDen

\* The step to the state r, when r is within the bounds.
Step(r) ==
    /\ Bounded(r)
    /\ model' = r.model
    /\ vm' = r.vm
    /\ view' = r.view

\* A click on a control outside the canvas, with the pointer button up before
\* and after: the label input loses the focus.
Control(r) == ~buttonDown /\ Step(r) /\ UNCHANGED <<buttonDown, nudges>>
Click == BlurInput(St)

\* ------------------------------------------------------------------ actions
LoadImage == \E img \in Images : Control(handleImageLoad(Click, img))
ConfirmUnload == model.image.loaded /\ Control(handleConfirmUnload(Click))
ImportAnnotations(payloads) ==
    \E p \in payloads : Control(handleImportAnnotations(Click, p))

ToggleDrawingMode == Control(handleToggleDrawingMode(Click, FALSE))
TogglePenMode == Control(handleTogglePenMode(Click, FALSE))
ToggleTextMode == Control(handleToggleTextMode(Click, FALSE))
ToggleSelectionDrawing == Control(handleToggleSelectionDrawing(Click, FALSE))
AspectRatioChange(ratios) ==
    \E r \in ratios : Control(handleAspectRatioChange(Click, r))

UndoButton == Control(handleUndo(Click))
RedoButton == Control(handleRedo(Click))
DeleteButton == Control(deleteSelectedBoxes(Click))

AnnotationListClick ==
    \E i \in 1..Len(model.boxes) : \E multi \in BOOLEAN :
        Control(selectBox(Click, model.boxes[i].id, multi))
AnnotationListEdit ==
    \E i \in 1..Len(model.boxes) :
        Control(handleEditAnnotationText(Click, model.boxes[i].id))

ZoomInButton == Control(handleZoomIn(Click))
ZoomOutButton == Control(handleZoomOut(Click))
FitToScreenButton ==
    Control(handleFitToScreen(Click, view.canvas.width, view.canvas.height))
ResetViewButton == Control(handleResetView(Click))
\* An image file dropped on the canvas (handleCanvasDrop) and decoded.
CanvasDrop(images) == \E img \in images : Control(handleImageLoad(St, img))
\* The window takes another size, which gives the container the size c.
WindowResize(containers) ==
    \E c \in containers :
        /\ Step(onWindowResize([St EXCEPT !.view.containerRect = c]))
        /\ UNCHANGED <<buttonDown, nudges>>
Wheel(points, deltas) ==
    /\ \E p \in points : \E d \in deltas :
        Step(handleWheel(St, [x |-> p[1], y |-> p[2], deltaY |-> d]))
    /\ UNCHANGED <<buttonDown, nudges>>

\* The canvas takes the focus from the keyboard (tabindex 0), or loses it.
CanvasFocus == ~vm.isCanvasFocused /\ Control(FocusCanvas(St))
CanvasBlur ==
    /\ vm.isCanvasFocused /\ ~view.isEditingText
    /\ Control([St EXCEPT !.vm.isCanvasFocused = FALSE])

\* The step to the state r of a press; handles tells whether the presses on a
\* handle of the selected shape are among the inputs.
Press(r, handles) ==
    /\ handles \/ ~(r.vm.isResizing \/ r.vm.isRotating)
    /\ Step(r)

MouseDown(points, buttons, handles) ==
    /\ ~buttonDown
    /\ \E p \in points : \E b \in buttons : \E c \in BOOLEAN :
        Press(handleMouseDown(St, [x |-> p[1], y |-> p[2], button |-> b, ctrl |-> c]),
              handles)
    /\ buttonDown' = TRUE
    /\ UNCHANGED nudges
MouseMove(points) ==
    /\ \E p \in points :
        /\ MoveAngle(St, [x |-> p[1], y |-> p[2]]) # -1
        /\ Step(handleMouseMove(St, [x |-> p[1], y |-> p[2]]))
    /\ UNCHANGED <<buttonDown, nudges>>
MouseUp(points, buttons) ==
    /\ buttonDown
    /\ \E p \in points : \E b \in buttons :
        Step(handleMouseUp(St, [x |-> p[1], y |-> p[2], button |-> b]))
    /\ buttonDown' = FALSE
    /\ UNCHANGED nudges
DoubleClick(points) ==
    /\ ~buttonDown
    /\ \E p \in points :
        Step(handleDoubleClick(FocusCanvas(St), [x |-> p[1], y |-> p[2]]))
    /\ UNCHANGED <<buttonDown, nudges>>

KeyDown(codes) ==
    /\ ~buttonDown
    /\ \E code \in codes : \E c \in BOOLEAN :
        LET e == [code |-> code, ctrl |-> c]
        IN  /\ Step(handleKeyDown(InputKeyDown(St, e), e))
            /\ nudges' = IF code \in ArrowCodes THEN nudges + 1 ELSE nudges
            /\ nudges' <= MaxNudges
    /\ UNCHANGED buttonDown
\* A key pressed while the pointer button is down.
KeyDownInGesture(codes) ==
    /\ buttonDown
    /\ \E code \in codes : \E c \in BOOLEAN :
        LET e == [code |-> code, ctrl |-> c]
        IN  Step(handleKeyDown(InputKeyDown(St, e), e))
    /\ UNCHANGED <<buttonDown, nudges>>
KeyUp(codes) ==
    /\ \E code \in codes : Step(handleKeyUp(St, [code |-> code]))
    /\ UNCHANGED <<buttonDown, nudges>>

\* An editing session: image, import, the rectangle tool (press at PA off the
\* handles, release at PB), selection, copy, delete, the label editor, undo and
\* redo.
Next ==
    \/ LoadImage
    \/ ConfirmUnload
    \/ ImportAnnotations(Payloads)
    \/ ToggleDrawingMode
    \/ UndoButton
    \/ RedoButton
    \/ DeleteButton
    \/ AnnotationListClick
    \/ AnnotationListEdit
    \/ MouseDown({PA}, {0}, FALSE)
    \/ MouseMove({PB})
    \/ MouseUp({PB}, {0})
    \/ DoubleClick({PC})
    \/ KeyDown(KeyCodes)

Spec == Init /\ [][Next]_vars

\* The tools: the four tool modes by button and by key, the aspect ratio, a
\* stroke from P1 to P3, pen paths over P1 and P2, and Escape during a stroke.
ToolNext ==
    \/ LoadImage
    \/ ConfirmUnload
    \/ ToggleDrawingMode
    \/ TogglePenMode
    \/ ToggleTextMode
    \/ ToggleSelectionDrawing
    \/ AspectRatioChange({"1:1", "4:3"})
    \/ MouseDown({P1, P2}, {0}, FALSE)
    \/ MouseMove({P3})
    \/ MouseUp({P3}, {0})
    \/ KeyDown({"KeyB", "KeyP", "KeyT", "KeyD", "Escape", "Enter"})
    \/ KeyDownInGesture({"Escape"})

ToolSpec == Init /\ [][ToolNext]_vars

\* Gestures on an imported polygon: drag from PI, resize from the corner P1,
\* rotate from PR, with copy, undo and redo, also during a gesture.
PolyNext ==
    \/ LoadImage
    \/ ImportAnnotations(PolyPayloads)
    \/ AnnotationListClick
    \/ KeyDown({"KeyC"})
    \/ UndoButton
    \/ RedoButton
    \/ MouseDown({P1, PR, PI}, {0}, TRUE)
    \/ MouseMove({PE})
    \/ MouseUp({PE}, {0})
    \/ KeyDownInGesture({"KeyC"})

PolySpec == Init /\ [][PolyNext]_vars

\* Presses on two overlapping squares, visible or not, with the rectangle tool on
\* or off: in both squares, in the lower one alone, in the upper one alone, in
\* neither.
HitNext ==
    \/ LoadImage
    \/ ImportAnnotations(HitPayloads)
    \/ ToggleDrawingMode
    \/ AnnotationListClick
    \/ MouseDown({PC, <<15, 15>>, PB, PA}, {0}, FALSE)
    \/ MouseUp({PC}, {0})

HitSpec == Init /\ [][HitNext]_vars

\* Gestures on a rectangle imported at a quarter turn: presses near a corner
\* handle, near the handle of a side and on the rotation handle, moves to the
\* places of handles and beyond, on the axes through the centre.
RectNext ==
    \/ LoadImage
    \/ ImportAnnotations(TurnedPayloads)
    \/ AnnotationListClick
    \/ MouseDown({<<42, 18>>, <<43, 30>>, <<30, 0>>, <<60, 30>>}, {0}, TRUE)
    \/ MouseMove({<<45, 20>>, <<50, 16>>, <<30, 0>>, <<60, 30>>, <<30, 60>>})
    \/ MouseUp({<<45, 20>>}, {0})

RectSpec == Init /\ [][RectNext]_vars

\* Keyboard nudges of imported shapes: the arrow key goes down, the shape moves;
\* the key goes up, the move is committed if the canvas has the focus.
NudgeNext ==
    \/ ImportAnnotations(Payloads \cup NullXPayloads)
    \/ AnnotationListClick
    \/ CanvasFocus
    \/ CanvasBlur
    \/ KeyDown({"ArrowRight", "KeyC", "KeyZ", "KeyY"})
    \/ KeyUp({"ArrowRight"})

NudgeSpec == Init /\ [][NudgeNext]_vars

\* The view of a loaded image: images larger and smaller than the canvas, zoom
\* by button, key and wheel, fit, reset and window resize (the container at
\* 92 x 92 or 72 x 92), over an imported triangle, undo and redo.
ViewImages ==
    {[loaded |-> TRUE, naturalWidth |-> 60, naturalHeight |-> 60],
     [loaded |-> TRUE, naturalWidth |-> 15, naturalHeight |-> 15],
     [loaded |-> TRUE, naturalWidth |-> 480, naturalHeight |-> 480]}

ViewNext ==
    \/ CanvasDrop(ViewImages)
    \/ ConfirmUnload
    \/ ImportAnnotations(PolyPayloads)
    \/ KeyDown({"Equal", "Minus", "Digit0", "KeyF"})
    \/ UndoButton
    \/ RedoButton
    \/ ZoomInButton
    \/ ZoomOutButton
    \/ FitToScreenButton
    \/ ResetViewButton
    \/ WindowResize({Container0, [width |-> 72, height |-> 92]})
    \/ Wheel({PB}, {-1, 1})

ViewSpec == Init /\ [][ViewNext]_vars

\* A pan with the middle button (press at PA, move to PB, release) between
\* zooms, over an imported triangle with its copy, undo and redo.
PanNext ==
    \/ LoadImage
    \/ ImportAnnotations(PolyPayloads)
    \/ AnnotationListClick
    \/ KeyDown({"KeyC"})
    \/ UndoButton
    \/ RedoButton
    \/ ZoomInButton
    \/ ZoomOutButton
    \/ FitToScreenButton
    \/ ResetViewButton
    \/ MouseDown({PA}, {1}, FALSE)
    \/ MouseMove({PB})
    \/ MouseUp({PB}, {1})

PanSpec == Init /\ [][PanNext]_vars

\* ------------------------------------------------------------------ history
\* C1: every snapshot held in history or in the redo stack stays what it was
\* when it was pushed: a step that does not start a new history (image load,
\* image unload, import) leaves each snapshot that stays at its index as it is.
C1_SnapshotsImmutable ==
    [][\/ LoadImage
       \/ ConfirmUnload
       \/ ImportAnnotations(Payloads)
       \/ /\ \A i \in 1..Len(model.history) :
                i <= Len(model'.history) => model'.history[i] = model.history[i]
          /\ \A i \in 1..Len(model.redoStack) :
                i <= Len(model'.redoStack) => model'.redoStack[i] = model.redoStack[i]]_vars

\* C2: whenever undo() returns true, the redo() right after it returns true and
\* leaves the live list equal to the list before the undo.
C2_UndoRedoRoundTrip ==
    LET u == undo(model)
    IN  u.ret => /\ redo(u.m).ret
                 /\ redo(u.m).m.boxes = model.boxes

\* C3: history is never empty and its first snapshot is the empty list.
C3_HistoryStartsEmpty ==
    /\ Len(model.history) >= 1
    /\ model.history[1] = <<>>

RECURSIVE UndoTimes(_, _)
\* undo() called k times in a row.
UndoTimes(m, k) == IF k = 0 THEN m ELSE UndoTimes(undo(m).m, k - 1)

\* C4: undo() on a history of one snapshot returns false and changes nothing;
\* history.length - 1 undos in a row bring history to length 1, and one more
\* undo() leaves it there.
C4_UndoFloor ==
    LET floor == UndoTimes(model, Len(model.history) - 1)
    IN  /\ Len(model.history) = 1 => undo(model) = [ret |-> FALSE, m |-> model]
        /\ Len(floor.history) = 1
        /\ undo(floor) = [ret |-> FALSE, m |-> floor]

\* A history at its floor, reached by undos, with the redo stack holding what
\* they popped.
C4_Witness ==
    /\ Len(model.history) = 1
    /\ Len(model.redoStack) >= 2

\* C5: saveState() appends one snapshot equal to the live list, leaves the live
\* list and the earlier snapshots as they are and empties the redo stack, so
\* that redo() then returns false and changes nothing.
C5_SaveStateAppendsOne ==
    LET s == saveState(model)
    IN  /\ s.history = Append(model.history, model.boxes)
        /\ s.boxes = model.boxes
        /\ s.nextId = model.nextId
        /\ s.redoStack = <<>>
        /\ redo(s) = [ret |-> FALSE, m |-> s]

\* A commit after an undo: the live list is the last snapshot, below it is a
\* snapshot the undo went back to, and the redo stack is empty again.
C5_Witness ==
    /\ Len(model.history) >= 3
    /\ model.redoStack = <<>>
    /\ model.boxes # <<>>
    /\ Last(model.history) = model.boxes
    /\ model.arrShared

\* ---------------------------------------------------------------------- ids
\* C6: within a session each id handed out is strictly greater than every id
\* handed out before it.
C6_IdsMonotonic ==
    \A i, j \in 1..Len(model.issued) :
        i < j => model.issued[i] < model.issued[j]

\* The allocator is max(ids) + 1, or 0 for the empty list.
Allocated(m) ==
    m.nextId = IF Len(m.boxes) = 0 THEN 0 ELSE SetMax(Range(Ids(m.boxes))) + 1

\* C7: the live ids are pairwise distinct and each is below the allocator;
\* after undo, redo and an accepted import the allocator is max(ids) + 1, or 0
\* for the empty list.
C7_LiveIdsDistinct ==
    /\ \A i, j \in 1..Len(model.boxes) :
            i # j => model.boxes[i].id # model.boxes[j].id
    /\ \A i \in 1..Len(model.boxes) : model.boxes[i].id < model.nextId
    /\ undo(model).ret => Allocated(undo(model).m)
    /\ redo(model).ret => Allocated(redo(model).m)
    /\ \A p \in Payloads :
            \/ handleImportAnnotations(St, p) = St
            \/ Allocated(handleImportAnnotations(St, p).model)

\* Two live shapes restored by undo or redo, the next id right above them.
C7_Witness ==
    /\ model.arrShared
    /\ Len(model.boxes) = 2
    /\ model.redoStack # <<>>

\* -------------------------------------------------------------------- tools
ToolModes == {"isDrawingMode", "isPenMode", "isTextMode", "isDrawingSelection"}

\* C8: at most one of the four tool modes is active.
C8_SingleTool ==
    \A t, u \in ToolModes : (vm[t] /\ vm[u]) => t = u

\* The pen is on with a path begun, having taken over from another tool.
C8_Witness ==
    /\ vm.isPenMode
    /\ Len(vm.currentPath) >= 1
    /\ Len(model.boxes) >= 1

\* ---------------------------------------------------------------- selection
\* C9: every selected id is the id of a shape in the live list.
C9_SelectionLive ==
    \A i \in 1..Len(model.selectedBoxIds) :
        model.selectedBoxIds[i] \in Range(Ids(model.boxes))

\* ----------------------------------------------------------------- polygons
\* C10: with no pointer button down, the stored x, y, w, h of every polygon are
\* the min/max bounds of its points.
C10_PolygonBoundsAtRest ==
    ~buttonDown =>
        \A i \in 1..Len(model.boxes) :
            model.boxes[i].type = "poly" =>
                LET bb == calculateBoundingBox(model.boxes[i].points)
                IN  /\ model.boxes[i].x = bb.x
                    /\ model.boxes[i].y = bb.y
                    /\ model.boxes[i].w = bb.w
                    /\ model.boxes[i].h = bb.h

\* ----------------------------------------------------------------- geometry
\* C11: with no pointer button down, every shape in the live list has a width
\* and a height above 0.
C11_PositiveSize ==
    ~buttonDown =>
        \A i \in 1..Len(model.boxes) :
            /\ QLt(I(0), model.boxes[i].w)
            /\ QLt(I(0), model.boxes[i].h)

\* ----------------------------------------------------------------- gestures
\* C12: a pointer-move changes neither history nor the redo stack, and the
\* pointer-up that ends a drag, resize or rotate pushes one snapshot.
C12_OneSnapshotPerGesture ==
    [][/\ MouseMove({PE}) =>
            /\ model'.history = model.history
            /\ model'.redoStack = model.redoStack
       /\ (MouseUp({PE}, {0}) /\ (vm.isDragging \/ vm.isResizing \/ vm.isRotating)) =>
            Len(model'.history) = Len(model.history) + 1]_vars
\* ----------------------------------------------------------------- gestures
\* C13: the pointer-up of the button that started a gesture ends the gesture:
\* after it none of panning, dragging, resizing, rotating and drawing is active,
\* and the resize handle, the pivot and the anchors are back to neutral.
C13_GestureEndsOnPointerUp ==
    [][MouseUp({PB}, {1}) =>
          /\ ~vm'.isPanning /\ ~vm'.isDragging /\ ~vm'.isResizing
          /\ ~vm'.isRotating /\ ~vm'.isDrawing
          /\ vm'.resizeHandle = "null"
          /\ vm'.startX = I(0) /\ vm'.startY = I(0)
          /\ vm'.offsetX = I(0) /\ vm'.offsetY = I(0)]_vars

\* No tool is active and no shape is being dragged, resized or rotated.
Idle(v) ==
    /\ ~v.isDrawingMode /\ ~v.isTextMode /\ ~v.isDrawingSelection /\ ~v.isPenMode
    /\ ~v.isDragging /\ ~v.isResizing /\ ~v.isRotating

\* C14: Escape on the focused canvas, with no label being edited: in pen mode it
\* empties the path and leaves pen mode; during a drawing stroke of the rectangle,
\* text or crop-selection tool it ends the stroke, discards the candidate and
\* leaves the tool.  Neither the Escape nor the pointer-up that follows (no tool
\* active any more) adds a shape or pushes a snapshot.
C14_EscapeCancels ==
    [][/\ ((KeyDown({"Escape"}) \/ KeyDownInGesture({"Escape"}))
            /\ vm.isCanvasFocused /\ ~view.isEditingText
            /\ (vm.isPenMode \/ vm.isDrawing)) =>
              /\ vm'.currentPath = <<>>
              /\ ~vm'.isDrawing /\ vm'.drawingRect = NoRect
              /\ ~vm'.isPenMode /\ ~vm'.isDrawingMode /\ ~vm'.isTextMode
              /\ ~vm'.isDrawingSelection
              /\ model'.boxes = model.boxes /\ model'.history = model.history
       /\ (MouseUp({P3}, {0}) /\ Idle(vm)) =>
              /\ model'.boxes = model.boxes /\ model'.history = model.history]_vars

C16_ScaleInRange ==
    QLe(MIN_SCALE, model.scale) /\ QLe(model.scale, I(MAX_SCALE))

\* The factors of the zoom buttons and of the wheel, and screen centers.
ZoomFactors == {Q(5, 4), Q(4, 5), Q(11, 10), Q(9, 10)}
ZoomCenters == {PA, PB, PC, <<30, 30>>}
Clamp(a) ==
    IF QLt(a, MIN_SCALE) THEN MIN_SCALE
    ELSE IF QLt(I(MAX_SCALE), a) THEN I(MAX_SCALE) ELSE a

ZoomInInOutOut(S) == handleZoomOut(handleZoomOut(handleZoomIn(handleZoomIn(S))))

\* C18: from any scale between MIN_SCALE and MAX_SCALE, zooming in twice and
\* out twice about the same center gives the starting scale back.
C18_ZoomRoundTrip ==
    (QLe(MIN_SCALE, model.scale) /\ QLe(model.scale, I(MAX_SCALE))) =>
        ZoomInInOutOut(St).model.scale = model.scale
\* C18, amended: the same from any scale between MIN_SCALE and MAX_SCALE / 1.5625,
\* where the two zooms in stay below the clamp.
C18_ZoomRoundTripBelowClamp ==
    (QLe(MIN_SCALE, model.scale)
        /\ QLe(QMul(model.scale, Q(25, 16)), I(MAX_SCALE))) =>
        ZoomInInOutOut(St).model.scale = model.scale
\* An image is shown at the scale 3.2, from where two zooms in reach MAX_SCALE.
C18_Witness ==
    /\ model.image.loaded /\ model.scale = Q(16, 5)
    /\ handleZoomIn(handleZoomIn(St)).model.scale = I(MAX_SCALE)

\* C19: a pan, a zoom, a fit to the screen and a reset of the view change none
\* of the shape list, history and the redo stack; an undo and a redo change
\* none of scale, panX and panY.
C19_ViewAndHistoryApart ==
    [][/\ (\/ MouseDown({PA}, {1}, FALSE) \/ MouseMove({PB}) \/ MouseUp({PB}, {1})
           \/ ZoomInButton \/ ZoomOutButton
           \/ FitToScreenButton \/ ResetViewButton) =>
              /\ model'.boxes = model.boxes
              /\ model'.history = model.history
              /\ model'.redoStack = model.redoStack
       /\ (UndoButton \/ RedoButton) =>
              /\ model'.scale = model.scale
              /\ model'.panX = model.panX
              /\ model'.panY = model.panY]_vars
\* A zoomed view is being panned over a shape list with an undone step.
C19_Witness ==
    /\ Len(model.boxes) >= 1 /\ Len(model.redoStack) >= 1
    /\ model.scale = Q(5, 4) /\ vm.isPanning /\ QLt(I(0), model.panX)

\* C20: right after an image is loaded or unloaded the shape list is empty, the
\* next id is 0, the redo stack is empty, the view is at scale 1 and pan (0, 0),
\* and history holds the one empty snapshot, so that undo() returns false.
C20_ResetOnLoadAndUnload ==
    [][(CanvasDrop(ViewImages) \/ LoadImage \/ ConfirmUnload) =>
          /\ model'.boxes = <<>>
          /\ model'.nextId = 0
          /\ model'.redoStack = <<>>
          /\ model'.scale = I(1) /\ model'.panX = I(0) /\ model'.panY = I(0)
          /\ model'.history = << <<>> >>
          /\ ~undo(model').ret]_vars

\* ------------------------------------------------------------------- shapes
\* C21: an import of a payload that is neither an array nor a wrapper of one, or
\* whose first annotation has no numeric x, leaves the shape list, the next id,
\* the selection, history and the redo stack as they were.
C21_ImportRejected ==
    [][ImportAnnotations({p \in Payloads \cup NullXPayloads :
                            \/ p.format \notin {"array", "wrapped"}
                            \/ Len(p.boxes) > 0 /\ p.firstX # "number"}) =>
          /\ model'.boxes = model.boxes
          /\ model'.nextId = model.nextId
          /\ model'.selectedBoxIds = model.selectedBoxIds
          /\ model'.history = model.history
          /\ model'.redoStack = model.redoStack]_vars

\* The shape n is the shape b moved by (10, 10) under another id.
IsCopy(b, n) ==
    /\ n.id # b.id
    /\ n.x = QAdd(b.x, I(10)) /\ n.y = QAdd(b.y, I(10))
    /\ n.w = b.w /\ n.h = b.h /\ n.angle = b.angle /\ n.text = b.text
    /\ n.type = b.type
    /\ Len(n.points) = Len(b.points)
    /\ \A j \in 1..Len(b.points) :
        /\ n.points[j].x = QAdd(b.points[j].x, I(10))
        /\ n.points[j].y = QAdd(b.points[j].y, I(10))
\* The shape list `after` is the list `before` followed by one copy of each of
\* the shapes of the ids, in their order, under ids that no other shape has.
CopiesAppended(before, after, ids) ==
    /\ Len(after) = Len(before) + Len(ids)
    /\ SubSeq(after, 1, Len(before)) = before
    /\ \A k \in 1..Len(ids) :
        IsCopy(before[FindBox(before, ids[k])], after[Len(before) + k])
    /\ \A i, j \in 1..Len(after) : i # j => after[i].id # after[j].id
SelectedLive(m) ==
    LET Live(id) == FindBox(m.boxes, id) # 0
    IN  SelectSeq(m.selectedBoxIds, Live)

\* C22: copyBox of a live id appends one copy moved by (10, 10) under a fresh id
\* and leaves the other shapes alone, copyBox of an absent id returns null and
\* changes nothing, and duplicating the selection appends one copy per selected
\* shape.
C22_Duplicate ==
    /\ \A id \in 0..(model.nextId + 1) :
        LET c == copyBox(model, id)
        IN  IF FindBox(model.boxes, id) = 0
            THEN c.id = -1 /\ c.m = model
            ELSE /\ CopiesAppended(model.boxes, c.m.boxes, <<id>>)
                 /\ c.id = c.m.boxes[Len(c.m.boxes)].id
    /\ CopiesAppended(model.boxes, handleCopyAnnotation(Click).model.boxes,
                      SelectedLive(Click.model))
\* The second shape is a copy of the first, a polygon, and both are selected.
C22_Witness ==
    /\ Len(model.boxes) = 2
    /\ model.boxes[1].type = "poly"
    /\ IsCopy(model.boxes[1], model.boxes[2])
    /\ Len(model.selectedBoxIds) = 2

DrawnRects ==
    {[x |-> I(5), y |-> I(5), w |-> I(10), h |-> I(20)],
     [x |-> I(30), y |-> Q(1, 2), w |-> Q(7, 2), h |-> I(1)]}
\* C23: addBox appends one rectangle of the given bounds with angle 0, the label
\* "Not defined" and the next id, leaves the shapes there were unchanged, and
\* changes neither history nor the redo stack.
C23_AddBox ==
    \A r \in DrawnRects :
        LET m == addBox(model, r)
            n == Len(model.boxes)
        IN  /\ Len(m.boxes) = n + 1
            /\ SubSeq(m.boxes, 1, n) = model.boxes
            /\ m.boxes[n + 1].type = "rect"
            /\ m.boxes[n + 1].x = r.x /\ m.boxes[n + 1].y = r.y
            /\ m.boxes[n + 1].w = r.w /\ m.boxes[n + 1].h = r.h
            /\ m.boxes[n + 1].angle = 0
            /\ m.boxes[n + 1].text = NotDefined
            /\ m.boxes[n + 1].id = model.nextId
            /\ m.nextId = model.nextId + 1
            /\ m.history = model.history
            /\ m.redoStack = model.redoStack

\* The shapes of the list whose id is not among the ids, in their order.
Without(boxes, ids) ==
    LET Kept(b) == IndexOf(ids, b.id) = 0
    IN  SelectSeq(boxes, Kept)

\* C24: deleting a selection that is not empty removes the selected shapes and no
\* other, keeps the rest in their order, empties the selection and pushes one
\* snapshot whatever the number of selected shapes; deleteBox of an absent id
\* leaves the list unchanged.
C24_DeleteSelection ==
    /\ LET S0 == Click
           S2 == deleteSelectedBoxes(S0)
       IN  Len(S0.model.selectedBoxIds) > 0 =>
               /\ S2.model.boxes = Without(S0.model.boxes, S0.model.selectedBoxIds)
               /\ S2.model.selectedBoxIds = <<>>
               /\ S2.model.history = Append(S0.model.history, S2.model.boxes)
    /\ \A id \in 0..(model.nextId + 1) :
        FindBox(model.boxes, id) = 0 => deleteBox(model, id).boxes = model.boxes
\* Two shapes were selected and deleted together: the last snapshot is empty and
\* the one before it holds both.
C24_Witness ==
    /\ model.boxes = <<>>
    /\ model.selectedBoxIds = <<>>
    /\ Len(model.history) >= 2
    /\ model.history[Len(model.history)] = <<>>
    /\ Len(model.history[Len(model.history) - 1]) = 2

FitImages ==
    {[loaded |-> TRUE, naturalWidth |-> 1000, naturalHeight |-> 500],
     [loaded |-> TRUE, naturalWidth |-> 60, naturalHeight |-> 30],
     [loaded |-> TRUE, naturalWidth |-> 30, naturalHeight |-> 70]}
FitCanvases ==
    {[width |-> 500, height |-> 250], [width |-> 92, height |-> 92],
     [width |-> 72, height |-> 92]}
\* C26: fit-to-screen on an image sets the scale to the smaller of canvas width
\* over image width and canvas height over image height and centres the scaled
\* image on both axes; a 1000 x 500 image on a 500 x 250 canvas gets the scale
\* 1/2; with no image nothing changes.
C26_FitToScreen ==
    /\ \A img \in FitImages \cup {model.image} : \A cv \in FitCanvases \cup {view.canvas} :
        LET S0 == [St EXCEPT !.model.image = img]
            S2 == handleFitToScreen(S0, cv.width, cv.height)
            sx == Q(cv.width, img.naturalWidth)
            sy == Q(cv.height, img.naturalHeight)
        IN  IF ~img.loaded THEN S2 = S0
            ELSE /\ S2.model.scale \in {sx, sy}
                 /\ QLe(S2.model.scale, sx) /\ QLe(S2.model.scale, sy)
                 /\ QAdd(QMul(I(2), S2.model.panX),
                         QMul(I(img.naturalWidth), S2.model.scale)) = I(cv.width)
                 /\ QAdd(QMul(I(2), S2.model.panY),
                         QMul(I(img.naturalHeight), S2.model.scale)) = I(cv.height)
    /\ handleFitToScreen(
           [St EXCEPT !.model.image =
                [loaded |-> TRUE, naturalWidth |-> 1000, naturalHeight |-> 500]],
           500, 250).model.scale = Q(1, 2)
\* An image fitted to the canvas at a scale other than 1.
C26_Witness ==
    /\ model.image.loaded
    /\ model.scale # I(1)
    /\ model.scale = QMin(Q(view.canvas.width, model.image.naturalWidth),
                          Q(view.canvas.height, model.image.naturalHeight))
    /\ model.panX = QHalf(QSub(I(view.canvas.width),
                               QMul(I(model.image.naturalWidth), model.scale)))
    /\ model.panY = QHalf(QSub(I(view.canvas.height),
                               QMul(I(model.image.naturalHeight), model.scale)))

\* ------------------------------------------------------------- pointer-down
\* The pointer-down at the world position (vm'.startX, vm'.startY) closes the
\* path: the path has three points or more and the position is within 8 / scale
\* of its first point.
ClosesPath ==
    /\ Len(vm.currentPath) >= 3
    /\ LET ddx == QSub(vm'.startX, vm.currentPath[1].x)
           ddy == QSub(vm'.startY, vm.currentPath[1].y)
           r == QDiv(I(8), model.scale)
       IN  QLt(QAdd(QMul(ddx, ddx), QMul(ddy, ddy)), QMul(r, r))

\* C27: with the polygon tool active, a pointer-down that closes the path appends
\* one polygon whose points are the path, pushes one snapshot, turns the tool
\* off, empties the path and selects the new polygon alone; any other
\* pointer-down only appends its position to the path; every polygon in the
\* list has three points or more.
C27_PenClosing ==
    /\ [](\A i \in 1..Len(model.boxes) :
            model.boxes[i].type = "poly" => Len(model.boxes[i].points) >= 3)
    /\ [][MouseDown({P1, P2}, {0}, FALSE) /\ vm.isPenMode /\ ~view.isEditingText =>
            LET n == Len(model.boxes)
            IN  IF ClosesPath
                THEN /\ Len(model'.boxes) = n + 1
                     /\ SubSeq(model'.boxes, 1, n) = model.boxes
                     /\ model'.boxes[n + 1].type = "poly"
                     /\ model'.boxes[n + 1].points = vm.currentPath
                     /\ Len(model'.history) = Len(model.history) + 1
                     /\ model'.history[Len(model'.history)] = model'.boxes
                     /\ ~vm'.isPenMode
                     /\ vm'.currentPath = <<>>
                     /\ model'.selectedBoxIds = <<model'.boxes[n + 1].id>>
                ELSE /\ vm'.currentPath =
                            Append(vm.currentPath, Pt(vm'.startX, vm'.startY))
                     /\ model'.boxes = model.boxes
                     /\ model'.history = model.history
                     /\ vm'.isPenMode]_vars

HandleKeys == {"nw", "ne", "sw", "se", "n", "s", "w", "e"}
Opposite(k) ==
    CASE k = "nw" -> "se" [] k = "se" -> "nw" [] k = "ne" -> "sw" [] k = "sw" -> "ne"
      [] k = "n" -> "s" [] k = "s" -> "n" [] k = "w" -> "e" [] k = "e" -> "w"
\* The point p is at most r away from the point c.
Within(p, c, r) ==
    LET dx == QSub(p.x, c.x)
        dy == QSub(p.y, c.y)
    IN  ~QLt(QMul(r, r), QAdd(QMul(dx, dx), QMul(dy, dy)))
\* Places to click for a handle at c with a disk of radius r: its centre, a
\* place on the rim of the disk and a place just outside it.
Probes(c, r) == {c, Pt(QAdd(c.x, r), c.y), Pt(c.x, QAdd(c.y, QAdd(r, Q(1, 2))))}

\* C28: a pointer-down makes the gesture a rotation only with one shape selected
\* and the click in the closed disk of radius 10 / scale round its rotation
\* handle, and a resize only with one shape selected that is not text-only and
\* the click in the closed disk of radius 8 / scale round one of its 8 resize
\* handles and outside the rotation disk; the pivot of a resize is the place of
\* the handle opposite the grabbed one.
C28_HandleHit ==
    (~buttonDown /\ ~vm.isPenMode /\ ~view.isEditingText /\ ~vm.keys["Space"]) =>
        /\ Len(model.selectedBoxIds) # 1 =>
                \A p \in {P1, PR, PI} : \A c \in BOOLEAN :
                    LET S2 == handleMouseDown(St, [x |-> p[1], y |-> p[2],
                                                   button |-> 0, ctrl |-> c])
                    IN  ~S2.vm.isRotating /\ ~S2.vm.isResizing
        /\ (Len(model.selectedBoxIds) = 1
            /\ FindBox(model.boxes, model.selectedBoxIds[1]) # 0) =>
                LET i == FindBox(model.boxes, model.selectedBoxIds[1])
                IN  \A t \in {model.boxes[i].isTextOnly, TRUE} :
                    LET S0 == [St EXCEPT !.model.boxes[i].isTextOnly = t]
                        handles == getHandles(model.boxes[i], model.scale)
                        rr == QDiv(I(10), model.scale)
                        hr == QDiv(I(8), model.scale)
                    IN  \A k \in HandleKeys \cup {"rotation"} :
                        \A p \in Probes(handles[k], IF k = "rotation" THEN rr ELSE hr) :
                            LET S2 == MouseDownHandles(
                                          [S0 EXCEPT !.vm.startX = p.x, !.vm.startY = p.y],
                                          FALSE)
                                inRotation == Within(p, handles.rotation, rr)
                            IN  /\ S2.vm.isRotating <=> inRotation
                                /\ S2.vm.isResizing <=>
                                      /\ ~inRotation
                                      /\ ~t
                                      /\ \E g \in HandleKeys : Within(p, handles[g], hr)
                                /\ S2.vm.isResizing =>
                                      /\ Within(p, handles[S2.vm.resizeHandle], hr)
                                      /\ S2.vm.offsetX = handles[Opposite(S2.vm.resizeHandle)].x
                                      /\ S2.vm.offsetY = handles[Opposite(S2.vm.resizeHandle)].y
\* A resize in progress whose pivot is the handle opposite the grabbed one.
C28_Witness ==
    /\ vm.isResizing
    /\ Len(model.selectedBoxIds) = 1
    /\ \E i \in 1..Len(model.boxes) :
        /\ model.boxes[i].id = model.selectedBoxIds[1]
        /\ vm.offsetX = getHandles(model.boxes[i], model.scale)[Opposite(vm.resizeHandle)].x
        /\ vm.offsetY = getHandles(model.boxes[i], model.scale)[Opposite(vm.resizeHandle)].y

\* The shape b, a square that is not rotated, is visible and the point (px, py)
\* is inside it.
Contains(b, px, py) ==
    /\ b.visible
    /\ QLt(b.x, px) /\ QLt(px, QAdd(b.x, b.w))
    /\ QLt(b.y, py) /\ QLt(py, QAdd(b.y, b.h))

C29_WitnessHidden ==
    /\ vm.isDragging
    /\ Len(model.boxes) = 2
    /\ ~model.boxes[2].visible
    /\ model.selectedBoxIds = <<model.boxes[1].id>>
    /\ vm.offsetX = QSub(vm.startX, model.boxes[1].x)
    /\ QLt(model.boxes[2].x, vm.startX)

\* ------------------------------------------------------------------ dragging
\* The shape n is the shape b moved by (dx, dy), with nothing else changed.
Translated(b, n, dx, dy) ==
    /\ n = [b EXCEPT !.x = n.x, !.y = n.y, !.points = n.points]
    /\ n.x = QAdd(b.x, dx) /\ n.y = QAdd(b.y, dy)
    /\ Len(n.points) = Len(b.points)
    /\ \A j \in 1..Len(b.points) :
        /\ n.points[j].x = QAdd(b.points[j].x, dx)
        /\ n.points[j].y = QAdd(b.points[j].y, dy)

\* C30: during a drag, a pointer-move moves every selected shape, the points of
\* a polygon with it, by the way the pointer has gone in the world since the
\* event before, and changes nothing else of it and nothing of the shapes that
\* are not selected.
C30_DragTranslates ==
    vm.isDragging /\ ~vm.isPanning =>
        \A p \in {PE, PI} :
            LET S2 == handleMouseMove(St, [x |-> p[1], y |-> p[2]])
                dx == QSub(screenToWorldX(St, p[1]), vm.startX)
                dy == QSub(screenToWorldY(St, p[2]), vm.startY)
            IN  /\ Len(S2.model.boxes) = Len(model.boxes)
                /\ \A i \in 1..Len(model.boxes) :
                    IF model.boxes[i].id \in Range(model.selectedBoxIds)
                    THEN Translated(model.boxes[i], S2.model.boxes[i], dx, dy)
                    ELSE S2.model.boxes[i] = model.boxes[i]

\* ------------------------------------------------------------------ resizing
\* C31: during the resize of a rectangle, at any quarter turn, the handle
\* opposite the grabbed one, taken from the shape as it is now, is at the pivot
\* recorded by the press; a move to the place of the grabbed handle leaves the
\* shape as it is; no move of a resize changes the angle.
C31_PivotFixed ==
    /\ [](\A i \in 1..Len(model.boxes) :
            (/\ vm.isResizing
             /\ model.selectedBoxIds = <<model.boxes[i].id>>
             /\ model.boxes[i].type = "rect") =>
                LET handles == getHandles(model.boxes[i], model.scale)
                    grabbed == handles[vm.resizeHandle]
                IN  /\ handles[Opposite(vm.resizeHandle)] = Pt(vm.offsetX, vm.offsetY)
                    /\ MoveResizing(St, i, grabbed.x, grabbed.y).model.boxes[i]
                          = model.boxes[i])
    /\ [][vm.isResizing /\ vm'.isResizing /\ Len(model'.boxes) = Len(model.boxes) =>
            \A i \in 1..Len(model.boxes) : model'.boxes[i].angle = model.boxes[i].angle]_vars

\* C32: during the resize of a polygon, on a loaded image, a pointer-move takes
\* every point p to pivot + R(angle) (sx lx, sy ly), where (lx, ly) is p - pivot
\* in the frame of the shape, sx is the new width over the old one and sy the
\* new height over the old one.
C32_PolygonScaling ==
    \A i \in 1..Len(model.boxes) :
        (/\ vm.isResizing /\ model.image.loaded
         /\ model.selectedBoxIds = <<model.boxes[i].id>>
         /\ model.boxes[i].type = "poly"
         /\ model.boxes[i].w[1] > 0 /\ model.boxes[i].h[1] > 0) =>
            LET b == model.boxes[i]
                n == handleMouseMove(St, [x |-> PE[1], y |-> PE[2]]).model.boxes[i]
                sx == QDiv(n.w, b.w)
                sy == QDiv(n.h, b.h)
                c == Cos4(b.angle)
                sn == Sin4(b.angle)
            IN  /\ Len(n.points) = Len(b.points)
                /\ \A j \in 1..Len(b.points) :
                    LET vx == QSub(b.points[j].x, vm.offsetX)
                        vy == QSub(b.points[j].y, vm.offsetY)
                        lx == QMul(sx, QAdd(QMul(vx, c), QMul(vy, sn)))
                        ly == QMul(sy, QSub(QMul(vy, c), QMul(vx, sn)))
                    IN  /\ n.points[j].x = QAdd(vm.offsetX, QSub(QMul(lx, c), QMul(ly, sn)))
                        /\ n.points[j].y = QAdd(vm.offsetY, QAdd(QMul(lx, sn), QMul(ly, c)))

\* ------------------------------------------------------------------ rotating
TurnPoints == {<<30, 0>>, <<60, 30>>, <<30, 60>>, <<0, 30>>}
\* The quarter turns of the direction from the point c to the pointer at p, 0
\* for a pointer straight above c; -1 when the direction is along no axis.
Direction(p, c) ==
    IF I(p[1]) = c.x /\ QLt(I(p[2]), c.y) THEN 0
    ELSE IF I(p[2]) = c.y /\ QLt(c.x, I(p[1])) THEN 1
    ELSE IF I(p[1]) = c.x /\ QLt(c.y, I(p[2])) THEN 2
    ELSE IF I(p[2]) = c.y /\ QLt(I(p[1]), c.x) THEN 3
    ELSE -1

\* C33: during the rotation of a rectangle a pointer-move sets the angle to the
\* direction from the centre of the shape to the pointer and changes nothing
\* else of the shape; a move to another direction and back gives the shape of
\* the first move again; the pointer-up that ends the rotation leaves x, y, w
\* and h as they are.
C33_RotateOnlyAngle ==
    \A i \in 1..Len(model.boxes) :
        (/\ vm.isRotating
         /\ model.selectedBoxIds = <<model.boxes[i].id>>
         /\ model.boxes[i].type = "rect") =>
            LET b == model.boxes[i]
                centre == Pt(QAdd(b.x, QHalf(b.w)), QAdd(b.y, QHalf(b.h)))
                Move(S, p) == handleMouseMove(S, [x |-> p[1], y |-> p[2]])
                up == handleMouseUp(St, [x |-> 30, y |-> 0, button |-> 0]).model.boxes[i]
            IN  /\ \A p \in TurnPoints : Direction(p, centre) # -1 =>
                    /\ Move(St, p).model.boxes[i] = [b EXCEPT !.angle = Direction(p, centre)]
                    /\ \A q \in TurnPoints : Direction(q, centre) # -1 =>
                            Move(Move(Move(St, p), q), p) = Move(St, p)
                /\ up = b

C35_ShiftSquare ==
    \A code \in {"ShiftLeft"} :
        (/\ vm.isDrawing /\ ~vm.isDrawingSelection /\ model.image.loaded
         /\ (vm.isDrawingMode \/ vm.isTextMode)) =>
            LET e == [code |-> code, ctrl |-> FALSE]
                held == handleKeyDown(InputKeyDown(St, e), e)
                moved == handleMouseMove(held, [x |-> P3[1], y |-> P3[2]])
                side == QMax(QAbs(QSub(screenToWorldX(held, P3[1]), held.vm.startX)),
                             QAbs(QSub(screenToWorldY(held, P3[2]), held.vm.startY)))
            IN  /\ moved.vm.drawingRect.set
                /\ moved.vm.drawingRect.w = side
                /\ moved.vm.drawingRect.h = side

\* C36: while a rectangle is being drawn or a polygon path is being built, a
\* pointer move and a pointer-down that appends to the path leave the shape
\* list, the id allocator, history and the redo stack as they were.
C36_DrawingFrame ==
    LET Kept(S2) == /\ S2.model.boxes = model.boxes
                    /\ S2.model.nextId = model.nextId
                    /\ S2.model.history = model.history
                    /\ S2.model.redoStack = model.redoStack
    IN  /\ (vm.isDrawing \/ vm.isPenMode) =>
                Kept(handleMouseMove(St, [x |-> P3[1], y |-> P3[2]]))
        /\ (vm.isPenMode /\ ~buttonDown) =>
                \A p \in {P1, P2} :
                    LET S2 == handleMouseDown(St, [x |-> p[1], y |-> p[2],
                                                   button |-> 0, ctrl |-> FALSE])
                    IN  Len(S2.vm.currentPath) = Len(vm.currentPath) + 1 => Kept(S2)

\* --------------------------------------------------------------------- nudges
\* C37: with no pointer gesture in progress and no arrow key held down, that is,
\* once the arrow key of a session without pointer events has been released, the
\* shape list equals the top snapshot of history.
C37_NudgeCommitted ==
    LET released == handleKeyUp(St, [code |-> "ArrowRight"])
    IN  /\ Len(released.model.history) > 0
        /\ released.model.boxes = Last(released.model.history)

\* ------------------------------------------------------------------ clicking
\* C38: a left press on a shape followed by the release with no move between
\* them leaves history and the redo stack as they were.
C38_ClickKeepsHistory ==
    ~buttonDown =>
        LET e == [x |-> PC[1], y |-> PC[2], button |-> 0, ctrl |-> FALSE]
            pressed == handleMouseDown(St, e)
            released == handleMouseUp(pressed, e)
        IN  (pressed.vm.isDragging /\ ~pressed.vm.isResizing /\ ~pressed.vm.isRotating) =>
                /\ released.model.history = model.history
                /\ released.model.redoStack = model.redoStack

\* ------------------------------------------------------------------ gestures
\* The transform states of v that are active.
ActiveGestures(v) ==
    {g \in {"isPanning", "isDragging", "isResizing", "isRotating", "isDrawing"} : v[g]}
\* C39: at most one of panning, dragging, resizing, rotating and drawing is
\* active, now and after a further left press, and a resize in progress has its
\* handle recorded.
C39_OneGesture ==
    /\ Cardinality(ActiveGestures(vm)) <= 1
    /\ vm.isResizing => vm.resizeHandle \in HandleKeys
    /\ ~buttonDown =>
            \A p \in {PC, PI} :
                LET pressed == handleMouseDown(St, [x |-> p[1], y |-> p[2],
                                                    button |-> 0, ctrl |-> FALSE])
                IN  /\ Cardinality(ActiveGestures(pressed.vm)) <= 1
                    /\ pressed.vm.isResizing => pressed.vm.resizeHandle \in HandleKeys

\* ------------------------------------------------------------------ no image
\* C40: while no image is loaded no step of the tools, the pointer or the
\* keyboard adds a shape to the list.
C40_NoShapeWithoutImage ==
    [][(~model.image.loaded /\ ~model'.image.loaded) =>
          Len(model'.boxes) <= Len(model.boxes)]_vars
====
